---- MODULE Spec2Model ----
(***************************************************************************)
(* A model of markparsr: the item reconciler (helpers.go), the fuzzy       *)
(* section matcher and the markdown content extractor (markdown.go).       *)
(*                                                                         *)
(* A Go string is modelled as the sequence of its runes; an ASCII rune is   *)
(* the TLA+ string of its character and takes one byte, the rune U+00E9    *)
(* (e with acute accent) is "e_acute" and takes the two bytes 0xC3 0xA9 of *)
(* its UTF-8 encoding, which matters wherever the code indexes bytes.      *)
(***************************************************************************)
EXTENDS Integers, Sequences, FiniteSets, TLC

VARIABLES
    tfItems,      \* compareTerraformAndMarkdown: argument tfItems
    mdItems,      \* compareTerraformAndMarkdown: argument mdItems
    itemType,     \* compareTerraformAndMarkdown: argument itemType
    tfIndex,      \* the itemIndex built for tfItems by the last call
    mdIndex,      \* the itemIndex built for mdItems by the last call
    errors,       \* the []error returned by the last call
    prevErrors,   \* the []error returned by the call before the last one
    relation,     \* how the current arguments relate to the previous call's
    rpc,          \* "idle": arguments chosen, "done": the call has returned
    actual,       \* matchesSectionName: argument actual
    expected,     \* matchesSectionName: argument expected
    matched,      \* what matchesSectionName returned
    mpc,          \* "idle": arguments chosen, "done": the call has returned
    doc,          \* MarkdownContent: the parsed document (rootNode) and the anchors of data
    sections,     \* MarkdownContent.sections: the HasSection cache
    sectionMatches, \* MarkdownContent.sectionMatches: the matchSectionHeadings cache
    calls,        \* how many calls the MarkdownContent has served
    lastCall,     \* the last call on the MarkdownContent: operation, arguments, result
    uv,           \* URLValidator.Validate: the goroutines, channels and WaitGroup of one call
    tc            \* TerraformContent.ExtractResourcesAndDataSources: the same, of one call

rvars == <<tfItems, mdItems, itemType, tfIndex, mdIndex, errors, prevErrors, relation, rpc>>

mvars == <<actual, expected, matched, mpc>>

dvars == <<doc, sections, sectionMatches, calls, lastCall>>

gvars == <<uv, tc>>

vars == <<rvars, mvars, dvars, gvars>>

-----------------------------------------------------------------------------
(* Bounds of the model *)

\* len(tfItems) + len(mdItems) of one compareTerraformAndMarkdown call
MaxItems == 3

\* the runes of actual and expected together, for the generated names of one
\* matchesSectionName call
MaxNameRunes == 5

\* the headings of a document
MaxBlocks == 2

\* the calls one MarkdownContent serves
MaxCalls == 2

\* the longest document, in nodes, whose format is detected
MaxNodes == 5

\* the most columns of a table's header
MaxColumns == 2

\* the most URLs of a document
MaxURLs == 6

-----------------------------------------------------------------------------
(* Go strings *)

Uppers == <<"A", "B", "C", "D", "E", "F", "G", "H", "I", "J", "K", "L", "M",
            "N", "O", "P", "Q", "R", "S", "T", "U", "V", "W", "X", "Y", "Z">>
Lowers == <<"a", "b", "c", "d", "e", "f", "g", "h", "i", "j", "k", "l", "m",
            "n", "o", "p", "q", "r", "s", "t", "u", "v", "w", "x", "y", "z">>

\* unicode.ToLower on one rune
LowerOf == [u \in {Uppers[i] : i \in 1..Len(Uppers)} |->
               Lowers[CHOOSE i \in 1..Len(Uppers) : Uppers[i] = u]]

ToLowerRune(c) == IF c \in DOMAIN LowerOf THEN LowerOf[c] ELSE c

\* strings.ToLower
ToLower(s) == [i \in 1..Len(s) |-> ToLowerRune(s[i])]

\* unicode.IsSpace, on the runes of the model
IsSpace(c) == c = " "

\* strings.TrimSpace
TrimSpace(s) ==
    LET idx == {i \in 1..Len(s) : ~IsSpace(s[i])}
    IN  IF idx = {} THEN <<>>
        ELSE LET lo == CHOOSE i \in idx : \A j \in idx : i <= j
                 hi == CHOOSE i \in idx : \A j \in idx : i >= j
             IN  SubSeq(s, lo, hi)

\* strings.Index(s, c) for a one-rune c over one-byte runes: 0-based, -1 when absent
Index(s, c) ==
    LET idx == {i \in 1..Len(s) : s[i] = c}
    IN  IF idx = {} THEN -1
        ELSE (CHOOSE i \in idx : \A j \in idx : i <= j) - 1

\* strings.EqualFold
EqualFold(a, b) == ToLower(a) = ToLower(b)

\* strings.Contains(s, sub)
Contains(s, sub) ==
    \E i \in 0..(Len(s) - Len(sub)) : SubSeq(s, i + 1, i + Len(sub)) = sub

\* the sequences of length Cardinality(S) that list every element of S once
Orderings(S) ==
    {o \in [1..Cardinality(S) -> S] : \A i, j \in 1..Cardinality(S) : o[i] = o[j] => i = j}

\* the elements of a sequence
Range(s) == {s[i] : i \in 1..Len(s)}

\* the sequences over S of length at most n
SeqsUpTo(S, n) == UNION {[1..k -> S] : k \in 0..n}

\* the bytes of one rune: UTF-8 encodes U+00E9 as 0xC3 0xA9, an ASCII rune as itself
RuneBytes(c) == IF c = "e_acute" THEN <<"0xC3", "0xA9">> ELSE <<c>>

\* the bytes of a string: what s[i] indexes and len(s) counts
RECURSIVE Bytes(_)
Bytes(s) == IF s = <<>> THEN <<>> ELSE RuneBytes(Head(s)) \o Bytes(Tail(s))

\* the 0-based byte offsets at which the runes of s start, in order: the
\* values i takes in "for i := range s"
RECURSIVE RuneStartsFrom(_, _)
RuneStartsFrom(s, offset) ==
    IF s = <<>> THEN <<>>
    ELSE <<offset>> \o RuneStartsFrom(Tail(s), offset + Len(RuneBytes(Head(s))))

RuneStarts(s) == RuneStartsFrom(s, 0)

-----------------------------------------------------------------------------
(* markdown.go, sections.go: the fuzzy section matcher *)

\* min of three integers
min(a, b, c) ==
    IF a < b THEN (IF a < c THEN a ELSE c)
    ELSE IF b < c THEN b ELSE c

\* the inner loop of levenshtein for the row of the byte at offset i of s1:
\* v1 after the loop.  js are the offsets j still to visit.
RECURSIVE levenshteinRow(_, _, _, _, _, _)
levenshteinRow(b1, b2, i, js, v0, v1) ==
    IF js = <<>> THEN v1
    ELSE LET j    == Head(js)
             cost == IF b1[i + 1] = b2[j + 1] THEN 0 ELSE 1
         IN  levenshteinRow(b1, b2, i, Tail(js), v0,
                 [v1 EXCEPT ![j + 1] = min(v1[j] + 1, v0[j + 1] + 1, v0[j] + cost)])

\* the outer loop of levenshtein: <<v0, v1>> after the rows of the offsets is.
\* The copy loop "for j := range v0 { v0[j] = v1[j] }" makes v0 the row just
\* computed; comparing the domains has TLC evaluate that row before the next
\* one is started, and is always true.
RECURSIVE levenshteinRows(_, _, _, _, _, _)
levenshteinRows(b1, b2, is, js, v0, v1) ==
    IF is = <<>> THEN <<v0, v1>>
    ELSE LET i   == Head(is)
             row == levenshteinRow(b1, b2, i, js, v0, [v1 EXCEPT ![0] = i + 1])
         IN  IF DOMAIN row = DOMAIN v0
             THEN levenshteinRows(b1, b2, Tail(is), js, row, row)
             ELSE <<v0, v1>>

\* levenshtein(s1, s2): two work vectors indexed 0..len(s2); both loops range
\* over the strings, so i and j are the byte offsets of the runes' first
\* bytes, while s1[i], s2[j] and len() are in bytes
levenshtein(s1, s2) ==
    LET b1 == Bytes(s1)
        b2 == Bytes(s2)
    IN  IF Len(b1) = 0 THEN Len(b2)
        ELSE IF Len(b2) = 0 THEN Len(b1)
        ELSE levenshteinRows(b1, b2, RuneStarts(s1), RuneStarts(s2),
                             [k \in 0..Len(b2) |-> k],
                             [k \in 0..Len(b2) |-> 0])[2][Len(b2)]

\* isSimilarSection
isSimilarSection(found, exp) ==
    \/ found = exp
    \/ found \o <<"s">> = exp
    \/ found = exp \o <<"s">>
    \/ levenshtein(found, exp) <= 2
    \/ EqualFold(found, exp) /\ found # exp

Inputs == <<"I", "n", "p", "u", "t", "s">>
RequiredInputs == <<"R", "e", "q", "u", "i", "r", "e", "d", " ">> \o Inputs
OptionalInputs == <<"O", "p", "t", "i", "o", "n", "a", "l", " ">> \o Inputs

\* matchesSectionName
matchesSectionName(act, exp) ==
    LET a == TrimSpace(act)
        e == TrimSpace(exp)
    IN  IF a = <<>> \/ e = <<>> THEN FALSE
        ELSE IF EqualFold(a, e) THEN TRUE
        ELSE IF EqualFold(a, e \o <<"s">>) \/ EqualFold(a \o <<"s">>, e) THEN TRUE
        ELSE IF e = Inputs /\ (EqualFold(a, RequiredInputs) \/ EqualFold(a, OptionalInputs)) THEN TRUE
        ELSE isSimilarSection(a, e)

-----------------------------------------------------------------------------
(* helpers.go: the canonical item index *)

\* normalizedItem for a trimmed, non-empty name (buildItemIndex, lines 43-61)
NormalizedItem(trimmed) ==
    LET key == ToLower(trimmed)
        pos == Index(trimmed, ".")
    IN  [original |-> trimmed,
         key      |-> key,
         base     |-> IF pos # -1 THEN ToLower(TrimSpace(SubSeq(trimmed, 1, pos))) ELSE key,
         hasDot   |-> pos # -1]

\* the first loop of buildItemIndex: entries and qualifiedBases after all items
RECURSIVE insertItems(_, _, _)
insertItems(items, entries, qualifiedBases) ==
    IF items = <<>> THEN [entries |-> entries, qualifiedBases |-> qualifiedBases]
    ELSE LET trimmed == TrimSpace(Head(items))
             key     == ToLower(trimmed)
             entry   == NormalizedItem(trimmed)
         IN  IF trimmed = <<>> THEN insertItems(Tail(items), entries, qualifiedBases)
             ELSE IF key \in DOMAIN entries THEN insertItems(Tail(items), entries, qualifiedBases)
             ELSE insertItems(Tail(items),
                              (key :> entry) @@ entries,
                              IF entry.hasDot THEN qualifiedBases \cup {entry.base}
                                              ELSE qualifiedBases)

\* the second loop of buildItemIndex: bare entries of a qualified base are deleted
deleteSuperseded(entries, qualifiedBases) ==
    LET kept == {k \in DOMAIN entries :
                    ~(~entries[k].hasDot /\ entries[k].base \in qualifiedBases)}
    IN  [k \in kept |-> entries[k]]

\* a buildItemIndex that forgets the second loop
buildItemIndexKeepBare(items) ==
    LET entries == insertItems(items, <<>>, {}).entries
        bases   == {entries[k].base : k \in DOMAIN entries}
    IN  [entries |-> entries,
         byBase  |-> [b \in bases |-> {entries[k] : k \in {x \in DOMAIN entries : entries[x].base = b}}]]

\* the first loop of a buildItemIndex that drops a bare item when it meets it,
\* if a qualified item of its base came earlier
RECURSIVE insertItemsOnePass(_, _, _)
insertItemsOnePass(items, entries, qualifiedBases) ==
    IF items = <<>> THEN entries
    ELSE LET trimmed == TrimSpace(Head(items))
             key     == ToLower(trimmed)
             entry   == NormalizedItem(trimmed)
         IN  IF trimmed = <<>> \/ key \in DOMAIN entries
                \/ (~entry.hasDot /\ entry.base \in qualifiedBases)
             THEN insertItemsOnePass(Tail(items), entries, qualifiedBases)
             ELSE insertItemsOnePass(Tail(items),
                                     (key :> entry) @@ entries,
                                     IF entry.hasDot THEN qualifiedBases \cup {entry.base}
                                                     ELSE qualifiedBases)

\* a buildItemIndex with that single loop in place of the two
buildItemIndexOnePass(items) ==
    LET entries == insertItemsOnePass(items, <<>>, {})
        bases   == {entries[k].base : k \in DOMAIN entries}
    IN  [entries |-> entries,
         byBase  |-> [b \in bases |-> {entries[k] : k \in {x \in DOMAIN entries : entries[x].base = b}}]]

\* buildItemIndex.  byBase is rebuilt from the surviving entries (lines 73-76);
\* the order of a byBase list is the map's iteration order and only its length
\* is ever read, so a list is modelled as the set of its entries.
buildItemIndex(items) ==
    LET first   == insertItems(items, <<>>, {})
        entries == deleteSuperseded(first.entries, first.qualifiedBases)
        bases   == {entries[k].base : k \in DOMAIN entries}
    IN  [entries |-> entries,
         byBase  |-> [b \in bases |-> {entries[k] : k \in {x \in DOMAIN entries : entries[x].base = b}}]]

\* a hasMatch without the base fallback
hasMatchKeyOnly(idx, target) == target.key \in DOMAIN idx.entries

\* itemIndex.hasMatch
hasMatch(idx, target) ==
    \/ target.key \in DOMAIN idx.entries
    \/ target.base \in DOMAIN idx.byBase /\ Cardinality(idx.byBase[target.base]) > 0

\* fmt.Errorf("%s in Terraform but missing in markdown: %s", itemType, original)
\* and its mirror image: an error message, as the record of its parts
MissingError(type, presentIn, missingIn, original) ==
    [itemType |-> type, presentIn |-> presentIn, missingIn |-> missingIn, original |-> original]

\* the keys of idx whose entry has no match in other
unmatchedKeys(idx, other) == {k \in DOMAIN idx.entries : ~hasMatch(other, idx.entries[k])}

\* a compareTerraformAndMarkdown whose second loop is missing
compareOneSided(tfIdx, mdIdx, type) ==
    {[i \in 1..Len(o) |-> MissingError(type, "Terraform", "markdown", tfIdx.entries[o[i]].original)] :
        o \in Orderings(unmatchedKeys(tfIdx, mdIdx))}

\* the two loops of compareTerraformAndMarkdown over the built indexes: every
\* error list the call can return.  items() ranges over a Go map, so the order
\* within each side is any order; the Terraform side's errors come first.
compareIndexes(tfIdx, mdIdx, type) ==
    {[i \in 1..Len(o1) |-> MissingError(type, "Terraform", "markdown", tfIdx.entries[o1[i]].original)]
       \o
     [i \in 1..Len(o2) |-> MissingError(type, "markdown", "Terraform", mdIdx.entries[o2[i]].original)] :
        o1 \in Orderings(unmatchedKeys(tfIdx, mdIdx)),
        o2 \in Orderings(unmatchedKeys(mdIdx, tfIdx))}

-----------------------------------------------------------------------------
(* The reconciler and its callers *)

\* the raw item names the callers pass
RawItems ==
    { <<" ">>,
      <<"a">>, <<"A">>, <<" ", "a">>, <<"b">>,
      <<"a", ".", "x">>, <<"a", ".", "y">>, <<"a", " ", ".", "x">> }

ItemTypes == {"Variables", "Outputs"}

EmptyIndex == [entries |-> <<>>, byBase |-> <<>>]

RInit ==
    /\ \E n \in 0..MaxItems :
          /\ tfItems \in SeqsUpTo(RawItems, n)
          /\ mdItems \in SeqsUpTo(RawItems, MaxItems - n)
    /\ itemType \in ItemTypes
    /\ tfIndex = EmptyIndex
    /\ mdIndex = EmptyIndex
    /\ errors = <<>>
    /\ prevErrors = <<>>
    /\ relation = "first"
    /\ rpc = "idle"

\* no compareTerraformAndMarkdown call is made
RQuiet ==
    /\ tfItems = <<>>
    /\ mdItems = <<>>
    /\ itemType = "Variables"
    /\ tfIndex = EmptyIndex
    /\ mdIndex = EmptyIndex
    /\ errors = <<>>
    /\ prevErrors = <<>>
    /\ relation = "first"
    /\ rpc = "done"

\* one call of compareTerraformAndMarkdown(tfItems, mdItems, itemType)
Reconcile ==
    /\ rpc = "idle"
    /\ tfIndex' = buildItemIndex(tfItems)
    /\ mdIndex' = buildItemIndex(mdItems)
    /\ errors' \in compareIndexes(tfIndex', mdIndex', itemType)
    /\ rpc' = "done"
    /\ UNCHANGED <<tfItems, mdItems, itemType, prevErrors, relation>>
    /\ UNCHANGED <<mvars, dvars, gvars>>

\* the caller asks again with the two lists exchanged
SwapArguments ==
    /\ rpc = "done"
    /\ relation = "first"
    /\ tfItems' = mdItems
    /\ mdItems' = tfItems
    /\ prevErrors' = errors
    /\ relation' = "swapped"
    /\ rpc' = "idle"
    /\ UNCHANGED <<itemType, tfIndex, mdIndex, errors>>
    /\ UNCHANGED <<mvars, dvars, gvars>>

\* the caller asks again with the items of each list in another order
PermuteArguments ==
    /\ rpc = "done"
    /\ relation = "first"
    /\ \E p \in Orderings(1..Len(tfItems)), q \in Orderings(1..Len(mdItems)) :
          /\ tfItems' = [i \in 1..Len(tfItems) |-> tfItems[p[i]]]
          /\ mdItems' = [i \in 1..Len(mdItems) |-> mdItems[q[i]]]
    /\ prevErrors' = errors
    /\ relation' = "permuted"
    /\ rpc' = "idle"
    /\ UNCHANGED <<itemType, tfIndex, mdIndex, errors>>
    /\ UNCHANGED <<mvars, dvars, gvars>>

RNext == Reconcile \/ SwapArguments \/ PermuteArguments

-----------------------------------------------------------------------------
(* The section matcher and its callers *)

\* the runes of the generated section names
NameRunes == {"a", "s", "S", " ", "e_acute"}

\* the names around the "Inputs" special case
InputNames ==
    { Inputs, ToLower(Inputs), RequiredInputs, ToLower(RequiredInputs), OptionalInputs,
      <<"I", "n", "p", "u", "t">>, <<" ">> \o Inputs \o <<" ">> }

MInit ==
    /\ \/ \E n \in 0..MaxNameRunes :
             /\ actual \in SeqsUpTo(NameRunes, n)
             /\ expected \in SeqsUpTo(NameRunes, MaxNameRunes - n)
       \/ /\ actual \in InputNames
          /\ expected \in InputNames
    /\ matched = FALSE
    /\ mpc = "idle"

\* no matchesSectionName call is made
MQuiet ==
    /\ actual = <<>>
    /\ expected = <<>>
    /\ matched = FALSE
    /\ mpc = "done"

\* one call of matchesSectionName(actual, expected)
Match ==
    /\ mpc = "idle"
    /\ matched' = matchesSectionName(actual, expected)
    /\ mpc' = "done"
    /\ UNCHANGED <<actual, expected>>
    /\ UNCHANGED <<rvars, dvars, gvars>>

MNext == Match

\* one call of levenshtein(actual, expected)
Distance ==
    /\ mpc = "idle"
    /\ matched' = levenshtein(actual, expected)
    /\ mpc' = "done"
    /\ UNCHANGED <<actual, expected>>
    /\ UNCHANGED <<rvars, dvars, gvars>>

TNext == Distance


-----------------------------------------------------------------------------
(* markdown.go: MarkdownContent *)

\* strings.Trim(s, cutset)
Trim(s, cutset) ==
    LET idx == {i \in 1..Len(s) : s[i] \notin cutset}
    IN  IF idx = {} THEN <<>>
        ELSE LET lo == CHOOSE i \in idx : \A j \in idx : i <= j
                 hi == CHOOSE i \in idx : \A j \in idx : i >= j
             IN  SubSeq(s, lo, hi)

\* strings.TrimPrefix, strings.TrimSuffix
TrimPrefix(s, prefix) ==
    IF Len(s) >= Len(prefix) /\ SubSeq(s, 1, Len(prefix)) = prefix
    THEN SubSeq(s, Len(prefix) + 1, Len(s)) ELSE s
TrimSuffix(s, suffix) ==
    IF Len(s) >= Len(suffix) /\ SubSeq(s, Len(s) - Len(suffix) + 1, Len(s)) = suffix
    THEN SubSeq(s, 1, Len(s) - Len(suffix)) ELSE s

\* s without the later occurrences of its elements
RECURSIVE Dedup(_, _)
Dedup(s, seen) ==
    IF s = <<>> THEN <<>>
    ELSE IF Head(s) \in seen THEN Dedup(Tail(s), seen)
    ELSE <<Head(s)>> \o Dedup(Tail(s), seen \cup {Head(s)})

\* a heading of the document tree, and a node that is no heading (a paragraph,
\* a list) with the links below it; level 0 stands for "not an *ast.Heading"
Heading(level, text) == [level |-> level, text |-> text, links |-> <<>>]
Paragraph(links) == [level |-> 0, text |-> <<>>, links |-> links]
IsHeading(b) == b.level > 0

\* indexHeadings: the level-2 headings of the document, as their positions
\* among the children of the root, in document order
h2Headings(d) ==
    LET IsH2(i) == d.blocks[i].level = 2
    IN  SelectSeq([i \in 1..Len(d.blocks) |-> i], IsH2)

\* extractText of the heading at position h
headingText(d, h) == d.blocks[h].text

\* indexAnchors: anchorTypes, from the lower-case anchor name to its types
anchorTypes(d) ==
    LET names(list) == {ToLower(TrimSpace(list[i])) : i \in 1..Len(list)} \ {<<>>}
        ins  == names(d.inputAnchors)
        outs == names(d.outputAnchors)
    IN  [n \in ins \cup outs |->
            (IF n \in ins THEN {"input"} ELSE {}) \cup (IF n \in outs THEN {"output"} ELSE {})]

\* a matchExactSectionHeadings that matches as matchSectionHeadings does
matchFuzzySectionHeadings(d, sectionName) ==
    LET Fuzzy(h) == matchesSectionName(TrimSpace(headingText(d, h)), sectionName)
    IN  IF TrimSpace(sectionName) = <<>> THEN <<>> ELSE SelectSeq(h2Headings(d), Fuzzy)

\* matchExactSectionHeadings
matchExactSectionHeadings(d, sectionName) ==
    LET trimmed == TrimSpace(sectionName)
        Same(h) == TrimSpace(headingText(d, h)) = trimmed
    IN  IF trimmed = <<>> THEN <<>> ELSE SelectSeq(h2Headings(d), Same)

\* matchSectionHeadings, given the cache: the headings it returns and the cache
\* it leaves
matchSectionHeadings(d, cache, sectionName) ==
    LET key == ToLower(TrimSpace(sectionName))
        Fuzzy(h) == matchesSectionName(TrimSpace(headingText(d, h)), sectionName)
        found == SelectSeq(h2Headings(d), Fuzzy)
    IN  IF key = <<>> THEN [matches |-> <<>>, cache |-> cache]
        ELSE IF key \in DOMAIN cache THEN [matches |-> cache[key], cache |-> cache]
        ELSE [matches |-> found, cache |-> (key :> found) @@ cache]

\* collectSectionHeadings, given the cache: the headings of all names, each
\* once, and the cache it leaves
RECURSIVE collectFrom(_, _, _, _)
collectNext(d, m, sectionNames, headings) ==
    collectFrom(d, m.cache, sectionNames, headings \o m.matches)
collectFrom(d, cache, sectionNames, headings) ==
    IF sectionNames = <<>> THEN [headings |-> Dedup(headings, {}), cache |-> cache]
    ELSE collectNext(d, matchSectionHeadings(d, cache, Head(sectionNames)),
                     Tail(sectionNames), headings)

collectSectionHeadings(d, cache, sectionNames) == collectFrom(d, cache, sectionNames, <<>>)

AnchorInputPrefix == <<"<", "a", " ", "n", "a", "m", "e", "=", "\"", "i", "n", "p", "u", "t", "_">>
AnchorOutputPrefix == <<"<", "a", " ", "n", "a", "m", "e", "=", "\"", "o", "u", "t", "p", "u", "t", "_">>
AnchorClose == <<"<", "/", "a", ">">>
AnchorEnd == <<"\"", ">", "<", "/", "a", ">">>

\* itemNameFromHeading: <<>> stands for ("", false)
itemNameFromHeading(d, h) ==
    LET text == TrimSpace(headingText(d, h))
        n1 == Trim(text, {" ", "[", "]"})
        n2 == TrimPrefix(n1, AnchorInputPrefix)
        n3 == TrimPrefix(n2, AnchorOutputPrefix)
        n4 == TrimSuffix(n3, AnchorClose)
        n5 == TrimSuffix(n4, AnchorEnd)
    IN  IF text = <<>> THEN <<>> ELSE TrimSpace(n5)

\* itemsUnderHeading: the names of the level-3 headings that follow heading h
\* up to the next heading of its level or above
RECURSIVE itemsFrom(_, _, _)
itemsFrom(d, h, node) ==
    IF node > Len(d.blocks) THEN <<>>
    ELSE IF IsHeading(d.blocks[node]) /\ d.blocks[node].level <= d.blocks[h].level THEN <<>>
    ELSE LET name == itemNameFromHeading(d, node)
         IN  (IF d.blocks[node].level = 3 /\ name # <<>> THEN <<name>> ELSE <<>>)
                \o itemsFrom(d, h, node + 1)

itemsUnderHeading(d, h) == itemsFrom(d, h, h + 1)

Input == <<"i", "n", "p", "u", "t">>
Output == <<"o", "u", "t", "p", "u", "t">>

\* expectedAnchorType: "" when no name tells
RECURSIVE expectedAnchorType(_)
expectedAnchorType(sectionNames) ==
    IF sectionNames = <<>> THEN ""
    ELSE IF Contains(ToLower(Head(sectionNames)), Input) THEN "input"
    ELSE IF Contains(ToLower(Head(sectionNames)), Output) THEN "output"
    ELSE expectedAnchorType(Tail(sectionNames))

\* a filterItemsByAnchorType that keeps the items with an expected anchor only
filterItemsRequireAnchor(d, sectionNames, items) ==
    LET exp == expectedAnchorType(sectionNames)
        types(item) == IF ToLower(item) \in DOMAIN anchorTypes(d)
                       THEN anchorTypes(d)[ToLower(item)] ELSE {}
        Keep(item) == exp \in types(item)
    IN  IF items = <<>> THEN items
        ELSE IF exp = "" THEN items
        ELSE SelectSeq(items, Keep)

\* filterItemsByAnchorType
filterItemsByAnchorType(d, sectionNames, items) ==
    LET exp == expectedAnchorType(sectionNames)
        types(item) == IF ToLower(item) \in DOMAIN anchorTypes(d)
                       THEN anchorTypes(d)[ToLower(item)] ELSE {}
        Keep(item) == ~(types(item) # {} /\ exp \notin types(item))
    IN  IF items = <<>> THEN items
        ELSE IF exp = "" THEN items
        ELSE SelectSeq(items, Keep)

\* extractAnchoredItems: the names the expression captures in data, in order
extractAnchoredItems(list) ==
    LET NotBlank(n) == n # <<>>
    IN  SelectSeq([i \in 1..Len(list) |-> TrimSpace(list[i])], NotBlank)

\* fallbackSectionItems
fallbackSectionItems(d, sectionNames) ==
    LET needInputs  == \E i \in 1..Len(sectionNames) : Contains(ToLower(sectionNames[i]), Input)
        needOutputs == \E i \in 1..Len(sectionNames) : Contains(ToLower(sectionNames[i]), Output)
        items == Dedup((IF needInputs THEN extractAnchoredItems(d.inputAnchors) ELSE <<>>)
                        \o (IF needOutputs THEN extractAnchoredItems(d.outputAnchors) ELSE <<>>), {})
    IN  filterItemsByAnchorType(d, sectionNames, items)

\* the items under every heading of the list, in order
RECURSIVE itemsUnderHeadings(_, _)
itemsUnderHeadings(d, headings) ==
    IF headings = <<>> THEN <<>>
    ELSE itemsUnderHeading(d, Head(headings)) \o itemsUnderHeadings(d, Tail(headings))

\* extractDocumentSectionItems, given the cache: the items, the cache it leaves
\* and the branch taken
extractDocumentSectionItems(d, cache, sectionNames) ==
    LET c == collectSectionHeadings(d, cache, sectionNames)
    IN  IF Len(c.headings) = 0
        THEN [items |-> fallbackSectionItems(d, sectionNames), cache |-> c.cache, path |-> "fallback"]
        ELSE [items |-> filterItemsByAnchorType(d, sectionNames, itemsUnderHeadings(d, c.headings)),
              cache |-> c.cache, path |-> "headings"]

\* strings.HasPrefix
HasPrefix(s, prefix) == Len(s) >= Len(prefix) /\ SubSeq(s, 1, Len(prefix)) = prefix

\* strings.Split(s, c)[0] for a one-rune c: s up to its first c
SplitFirst(s, c) == IF Index(s, c) = -1 THEN s ELSE SubSeq(s, 1, Index(s, c))

\* hasProviderPrefix
hasProviderPrefix(d, s) ==
    /\ Len(d.providerPrefixes) # 0
    /\ \E i \in 1..Len(d.providerPrefixes) : HasPrefix(ToLower(s), ToLower(d.providerPrefixes[i]))

\* addUnique
addUnique(slice, item) == IF item \in Range(slice) THEN slice ELSE Append(slice, item)

DataSourcesPath == <<"/", "d", "a", "t", "a", "-", "s", "o", "u", "r", "c", "e", "s", "/">>
ResourcesPath == <<"/", "r", "e", "s", "o", "u", "r", "c", "e", "s", "/">>

\* appendResourceFromLink: the two lists after the link
appendResourceFromLink(d, link, acc) ==
    LET resourceName == TrimPrefix(SplitFirst(link.text, "]"), <<"[">>)
        baseName     == SplitFirst(resourceName, ".")
    IN  IF ~hasProviderPrefix(d, link.text) THEN acc
        ELSE IF Contains(link.destination, DataSourcesPath)
        THEN [acc EXCEPT !.dataSources = addUnique(addUnique(@, resourceName), baseName)]
        ELSE [acc EXCEPT !.resources = addUnique(addUnique(@, resourceName), baseName)]

\* the walk over the links of a list of nodes, in order
RECURSIVE appendResourcesFromLinks(_, _, _)
appendResourcesFromLinks(d, links, acc) ==
    IF links = <<>> THEN acc
    ELSE appendResourcesFromLinks(d, Tail(links), appendResourceFromLink(d, Head(links), acc))

\* the links below the nodes from position node on, up to the next heading of
\* level stop or shallower (stop 0: to the end of the document)
RECURSIVE linksFrom(_, _, _)
linksFrom(d, node, stop) ==
    IF node > Len(d.blocks) THEN <<>>
    ELSE IF IsHeading(d.blocks[node]) /\ d.blocks[node].level <= stop THEN <<>>
    ELSE d.blocks[node].links \o linksFrom(d, node + 1, stop)

NoResources == [resources |-> <<>>, dataSources |-> <<>>]

\* resourcesUnderHeading
resourcesUnderHeading(d, h) ==
    appendResourcesFromLinks(d, linksFrom(d, h + 1, d.blocks[h].level), NoResources)

\* resourcesWithoutHeading
resourcesWithoutHeading(d) == appendResourcesFromLinks(d, linksFrom(d, 1, 0), NoResources)

\* the loop of extractDocumentResourcesAndDataSources over the headings
RECURSIVE resourcesUnderHeadings(_, _)
resourcesUnderHeadings(d, headings) ==
    IF headings = <<>> THEN NoResources
    ELSE LET r    == resourcesUnderHeading(d, Head(headings))
             rest == resourcesUnderHeadings(d, Tail(headings))
         IN  [resources |-> r.resources \o rest.resources,
              dataSources |-> r.dataSources \o rest.dataSources]

Resources == <<"R", "e", "s", "o", "u", "r", "c", "e", "s">>
ResourcesNotFound == "resources section not found or empty"

\* an extractDocumentResourcesAndDataSources that scans the whole document
\* also when the sections it found hold nothing
extractWithDocumentFallback(d, cache) ==
    LET c    == collectSectionHeadings(d, cache, <<Resources>>)
        sec  == resourcesUnderHeadings(d, c.headings)
        r    == IF Len(sec.resources) = 0 /\ Len(sec.dataSources) = 0
                THEN resourcesWithoutHeading(d) ELSE sec
    IN  [resources |-> r.resources, dataSources |-> r.dataSources,
         err |-> IF Len(r.resources) = 0 /\ Len(r.dataSources) = 0 THEN ResourcesNotFound ELSE "",
         cache |-> c.cache,
         scan |-> IF Len(c.headings) = 0 THEN "document" ELSE "section"]

\* extractDocumentResourcesAndDataSources, given the cache: the two lists, the
\* error ("" for nil), the cache it leaves and the scan taken
extractDocumentResourcesAndDataSources(d, cache) ==
    LET c    == collectSectionHeadings(d, cache, <<Resources>>)
        scan == IF Len(c.headings) = 0 THEN "document" ELSE "section"
        r    == IF Len(c.headings) = 0 THEN resourcesWithoutHeading(d)
                ELSE resourcesUnderHeadings(d, c.headings)
    IN  IF Len(r.resources) = 0 /\ Len(r.dataSources) = 0
        THEN [resources |-> <<>>, dataSources |-> <<>>, err |-> ResourcesNotFound,
              cache |-> c.cache, scan |-> scan]
        ELSE [resources |-> r.resources, dataSources |-> r.dataSources, err |-> "",
              cache |-> c.cache, scan |-> scan]

\* a sectionNamesOf that keeps the headings without text
sectionNamesWithEmpty(d) ==
    [i \in 1..Len(h2Headings(d)) |-> TrimSpace(headingText(d, h2Headings(d)[i]))]

\* indexHeadings: sectionNames, the trimmed texts of the level-2 headings that
\* are not empty
sectionNamesOf(d) ==
    LET texts == [i \in 1..Len(h2Headings(d)) |-> TrimSpace(headingText(d, h2Headings(d)[i]))]
        NotEmpty(t) == t # <<>>
    IN  SelectSeq(texts, NotEmpty)

-----------------------------------------------------------------------------
(* The MarkdownContent and its callers *)

Outputs == <<"O", "u", "t", "p", "u", "t", "s">>


\* the headings of the documents: two sections, two items, a title
Blocks ==
    { Heading(2, RequiredInputs), Heading(2, Outputs),
      Heading(3, <<"x">>), Heading(3, <<"[", "y", "]">>),
      Heading(1, <<"T">>) }

\* the names captured by the input_ and the output_ anchors of the documents
InputAnchorLists == { <<>>, << <<"x">> >> }
OutputAnchorLists == { <<>>, << <<"x">> >> }

\* the names the callers ask HasSection for
HasSectionNames == { ToLower(Outputs), <<" ">> \o Outputs }

\* the names the callers ask ExtractSectionItems for
ExtractSectionNames ==
    { <<Inputs>>, <<ToLower(Inputs)>>, <<Outputs>>, <<RequiredInputs, Inputs>> }

NoDocument ==
    [blocks |-> <<>>, providerPrefixes |-> <<>>, inputAnchors |-> <<>>, outputAnchors |-> <<>>]

NoCall == [op |-> "none", args |-> <<>>, result |-> <<>>, path |-> "none"]

\* NewMarkdownContent
DInit ==
    /\ doc \in [blocks : SeqsUpTo(Blocks, MaxBlocks),
                providerPrefixes : {<<>>},
                inputAnchors : InputAnchorLists,
                outputAnchors : OutputAnchorLists]
    /\ sections = <<>>
    /\ sectionMatches = <<>>
    /\ calls = 0
    /\ lastCall = NoCall

\* no MarkdownContent is made
DQuiet ==
    /\ doc = NoDocument
    /\ sections = <<>>
    /\ sectionMatches = <<>>
    /\ calls = MaxCalls
    /\ lastCall = NoCall

\* HasSection with its answers kept under the folded and trimmed name
HasSectionFoldedKey ==
    /\ calls < MaxCalls
    /\ \E sectionName \in HasSectionNames :
          LET key == ToLower(TrimSpace(sectionName))
              found == IF key \in DOMAIN sections
                       THEN sections[key]
                       ELSE Len(matchExactSectionHeadings(doc, sectionName)) > 0
          IN  /\ sections' = IF key \in DOMAIN sections THEN sections
                             ELSE (key :> found) @@ sections
              /\ lastCall' = [op |-> "HasSection", args |-> <<sectionName>>,
                              result |-> found, path |-> "none"]
    /\ calls' = calls + 1
    /\ UNCHANGED <<doc, sectionMatches>>
    /\ UNCHANGED <<rvars, mvars, gvars>>

\* one call of HasSection(sectionName)
HasSection ==
    /\ calls < MaxCalls
    /\ \E sectionName \in HasSectionNames :
          LET found == IF sectionName \in DOMAIN sections
                       THEN sections[sectionName]
                       ELSE Len(matchExactSectionHeadings(doc, sectionName)) > 0
          IN  /\ sections' = IF sectionName \in DOMAIN sections THEN sections
                             ELSE (sectionName :> found) @@ sections
              /\ lastCall' = [op |-> "HasSection", args |-> <<sectionName>>,
                              result |-> found, path |-> "none"]
    /\ calls' = calls + 1
    /\ UNCHANGED <<doc, sectionMatches>>
    /\ UNCHANGED <<rvars, mvars, gvars>>

\* one call of ExtractSectionItems(sectionNames...)
ExtractSectionItems ==
    /\ calls < MaxCalls
    /\ \E sectionNames \in ExtractSectionNames :
          LET r == extractDocumentSectionItems(doc, sectionMatches, sectionNames)
          IN  /\ sectionMatches' = r.cache
              /\ lastCall' = [op |-> "ExtractSectionItems", args |-> sectionNames,
                              result |-> r.items, path |-> r.path]
    /\ calls' = calls + 1
    /\ UNCHANGED <<doc, sections>>
    /\ UNCHANGED <<rvars, mvars, gvars>>

DNext == HasSection \/ ExtractSectionItems

-----------------------------------------------------------------------------
(* The MarkdownContent of a document with links, and its callers *)

Link(text, destination) == [text |-> text, destination |-> destination]

\* the nodes of the documents: three sections, one of them without text, and
\* paragraphs with one link each
ResourceBlocks ==
    { Heading(2, Resources), Heading(2, Inputs), Heading(2, <<>>),
      Paragraph(<<Link(<<"p", "_", "r", ".", "m">>, ResourcesPath)>>),
      Paragraph(<<Link(<<"P", "_", "d">>, DataSourcesPath)>>),
      Paragraph(<<Link(<<"x", "_", "r">>, ResourcesPath)>>) }

\* the provider prefixes the MarkdownContent is made with
ProviderPrefixLists == { <<>>, << <<"p", "_">> >> }

\* documents that repeat a link, under one "Resources" heading and under two
RepeatedLinkBlocks ==
    LET link == Paragraph(<<Link(<<"p", "_", "r", ".", "m">>, ResourcesPath)>>)
    IN  { <<Heading(2, Resources), link, link>>,
          <<Heading(2, Resources), link, Heading(2, Resources), link>> }

\* NewMarkdownContent on a document with links
LInit ==
    /\ doc \in [blocks : SeqsUpTo(ResourceBlocks, MaxBlocks) \cup RepeatedLinkBlocks,
                providerPrefixes : ProviderPrefixLists,
                inputAnchors : {<<>>},
                outputAnchors : {<<>>}]
    /\ sections = <<>>
    /\ sectionMatches = <<>>
    /\ calls = 0
    /\ lastCall = NoCall

\* one call of ExtractResourcesAndDataSources()
ExtractResourcesAndDataSources ==
    /\ calls < MaxCalls
    /\ LET r == extractDocumentResourcesAndDataSources(doc, sectionMatches)
       IN  /\ sectionMatches' = r.cache
           /\ lastCall' = [op |-> "ExtractResourcesAndDataSources", args |-> <<>>,
                           result |-> [resources |-> r.resources,
                                       dataSources |-> r.dataSources, err |-> r.err],
                           path |-> r.scan]
    /\ calls' = calls + 1
    /\ UNCHANGED <<doc, sections>>
    /\ UNCHANGED <<rvars, mvars, gvars>>

\* one call of GetAllSections()
GetAllSections ==
    /\ calls < MaxCalls
    /\ lastCall' = [op |-> "GetAllSections", args |-> <<>>,
                    result |-> sectionNamesOf(doc), path |-> "none"]
    /\ calls' = calls + 1
    /\ UNCHANGED <<doc, sections, sectionMatches>>
    /\ UNCHANGED <<rvars, mvars, gvars>>

LNext == ExtractResourcesAndDataSources \/ GetAllSections

-----------------------------------------------------------------------------
(* sections.go: the SectionValidator *)

Providers == <<"P", "r", "o", "v", "i", "d", "e", "r", "s">>
Requirements == <<"R", "e", "q", "u", "i", "r", "e", "m", "e", "n", "t", "s">>

\* NewSectionValidator: requiredSections
requiredSections == <<Resources, Providers, Requirements, RequiredInputs, OptionalInputs, Outputs>>

\* the three errors of SectionValidator.Validate
MisspelledError(foundSection, expectedSection) ==
    [kind |-> "misspelled", found |-> foundSection, section |-> expectedSection]
RequiredMissingError(requiredSection) ==
    [kind |-> "required section missing", found |-> <<>>, section |-> requiredSection]
AdditionalMissingError(additionalSection) ==
    [kind |-> "additional section missing", found |-> <<>>, section |-> additionalSection]

\* the inner loop of Validate: the position of the first found section that
\* is not handled and is similar to the expected one, 0 when there is none
firstSimilar(foundSections, handledSections, expectedSection) ==
    LET hits == {i \in 1..Len(foundSections) :
                    /\ foundSections[i] \notin handledSections
                    /\ isSimilarSection(foundSections[i], expectedSection)}
    IN  IF hits = {} THEN 0 ELSE CHOOSE i \in hits : \A j \in hits : i <= j

\* the first loop of Validate: allErrors, handledSections and missingSections
\* after the required sections
RECURSIVE validateRequired(_, _, _)
validateRequired(foundSections, required, st) ==
    IF required = <<>> THEN st
    ELSE LET requiredSection == Head(required)
             hit == firstSimilar(foundSections, st.handled, requiredSection)
         IN  IF requiredSection \in Range(foundSections)
             THEN validateRequired(foundSections, Tail(required),
                      [st EXCEPT !.handled = @ \cup {requiredSection}])
             ELSE IF hit # 0
             THEN validateRequired(foundSections, Tail(required),
                      [st EXCEPT !.errors = Append(@, MisspelledError(foundSections[hit], requiredSection)),
                                 !.handled = @ \cup {foundSections[hit]}])
             ELSE validateRequired(foundSections, Tail(required),
                      [st EXCEPT !.errors = Append(@, RequiredMissingError(requiredSection)),
                                 !.missing = @ \cup {requiredSection}])

\* the second loop of Validate, over the additional sections
RECURSIVE validateAdditional(_, _, _)
validateAdditional(foundSections, additional, st) ==
    IF additional = <<>> THEN st
    ELSE LET additionalSection == Head(additional)
             hit == firstSimilar(foundSections, st.handled, additionalSection)
         IN  IF additionalSection \in st.handled \/ additionalSection \in st.missing
             THEN validateAdditional(foundSections, Tail(additional), st)
             ELSE IF additionalSection \in Range(foundSections)
             THEN validateAdditional(foundSections, Tail(additional),
                      [st EXCEPT !.handled = @ \cup {additionalSection}])
             ELSE IF hit # 0
             THEN validateAdditional(foundSections, Tail(additional),
                      [st EXCEPT !.errors = Append(@, MisspelledError(foundSections[hit], additionalSection)),
                                 !.handled = @ \cup {foundSections[hit]}])
             ELSE validateAdditional(foundSections, Tail(additional),
                      [st EXCEPT !.errors = Append(@, AdditionalMissingError(additionalSection))])

\* SectionValidator.Validate: allErrors
validateSections(d, additionalSections) ==
    LET foundSections == sectionNamesOf(d)
        st0 == [errors |-> <<>>, handled |-> {}, missing |-> {}]
    IN  validateAdditional(foundSections, additionalSections,
            validateRequired(foundSections, requiredSections, st0)).errors

Resourses == <<"R", "e", "s", "o", "u", "r", "s", "e", "s">>
ResourceUpper == <<"R", "E", "S", "O", "U", "R", "C", "E">>
Notes == <<"N", "o", "t", "e", "s">>

\* the headings a document has for each required section: the section as it
\* should be, a misspelling, or nothing
ResourcesForms == { <<Resources>>, <<Resourses>>, <<ResourceUpper>>, <<>> }
ProvidersForms == { <<Providers>>, <<>> }
RequirementsForms == { <<Requirements>>, <<>> }
RequiredInputsForms == { <<RequiredInputs>>, <<>> }
OptionalInputsForms == { <<OptionalInputs>>, <<>> }
OutputsForms == { <<Outputs>>, <<Output>>, <<>> }
NotesForms == { <<Notes>>, <<>> }

\* the level-2 headings of the documents, in document order
SectionLists ==
    { n \o r \o p \o q \o i \o o \o u :
        n \in NotesForms, r \in ResourcesForms, p \in ProvidersForms, q \in RequirementsForms,
        i \in RequiredInputsForms, o \in OptionalInputsForms, u \in OutputsForms }

\* the additional sections the caller asks for
AdditionalSectionLists == { <<>>, <<Notes>>, <<Resources>>, <<Notes, Notes>>, <<Output>> }

\* NewMarkdownContent on a document of these sections
SInit ==
    /\ \E list \in SectionLists :
          doc = [NoDocument EXCEPT !.blocks = [i \in 1..Len(list) |-> Heading(2, list[i])]]
    /\ sections = <<>>
    /\ sectionMatches = <<>>
    /\ calls = 0
    /\ lastCall = NoCall

\* NewSectionValidator(content, additionalSections).Validate(), once for a
\* document
ValidateSections ==
    /\ calls = 0
    /\ \E additionalSections \in AdditionalSectionLists :
          lastCall' = [op |-> "SectionValidator.Validate", args |-> additionalSections,
                       result |-> validateSections(doc, additionalSections), path |-> "none"]
    /\ calls' = 1
    /\ UNCHANGED <<doc, sections, sectionMatches>>
    /\ UNCHANGED <<rvars, mvars, gvars>>

SNext == ValidateSections

-----------------------------------------------------------------------------
(* definitions.go, items.go: the resource validator and the item validators *)

\* an error that is not one of the reconciler: an extraction error
PlainError(msg) == [kind |-> "error", msg |-> msg]

\* compareTerraformAndMarkdown: the error lists it can return
compareTerraformAndMarkdown(tfList, mdList, type) ==
    compareIndexes(buildItemIndex(tfList), buildItemIndex(mdList), type)

\* HasSection, given the cache: the answer and the cache it leaves
hasSection(d, secs, sectionName) ==
    IF sectionName \in DOMAIN secs
    THEN [found |-> secs[sectionName], sections |-> secs]
    ELSE LET found == Len(matchExactSectionHeadings(d, sectionName)) > 0
         IN  [found |-> found, sections |-> (sectionName :> found) @@ secs]

\* a validateDefinitions that returns the markdown error also for a module
\* without resources
validateDefinitionsStrict(d, secs, cache, tf) ==
    LET md  == extractDocumentResourcesAndDataSources(d, cache)
        has == hasSection(d, secs, Resources)
    IN  IF tf.err # ""
        THEN {[errors |-> <<PlainError(tf.err)>>, sections |-> secs, cache |-> cache]}
        ELSE IF md.err # ""
        THEN {[errors |-> <<PlainError(md.err)>>, sections |-> secs, cache |-> md.cache]}
        ELSE {[errors |-> a \o b, sections |-> has.sections, cache |-> md.cache] :
                 a \in compareTerraformAndMarkdown(tf.resources, md.resources, "Resources"),
                 b \in compareTerraformAndMarkdown(tf.dataSources, md.dataSources, "Data Sources")}

\* a validateDefinitions that goes on to compare after the markdown error
validateDefinitionsThrough(d, secs, cache, tf) ==
    LET md  == extractDocumentResourcesAndDataSources(d, cache)
        has == hasSection(d, secs, Resources)
        first == IF Len(tf.resources) + Len(tf.dataSources) > 0 /\ md.err # ""
                 THEN <<PlainError(md.err)>> ELSE <<>>
    IN  IF tf.err # ""
        THEN {[errors |-> <<PlainError(tf.err)>>, sections |-> secs, cache |-> cache]}
        ELSE {[errors |-> first \o a \o b, sections |-> has.sections, cache |-> md.cache] :
                 a \in compareTerraformAndMarkdown(tf.resources, md.resources, "Resources"),
                 b \in compareTerraformAndMarkdown(tf.dataSources, md.dataSources, "Data Sources")}

\* the checks of TerraformDefinitionValidator.Validate, given what the
\* MarkdownContent extracts (md) and whether it has the Resources section (has)
checkDefinitions(secs, cache, tf, md, has) ==
    IF tf.err # ""
    THEN {[errors |-> <<PlainError(tf.err)>>, sections |-> secs, cache |-> cache]}
    ELSE IF Len(tf.resources) + Len(tf.dataSources) > 0 /\ md.err # ""
    THEN {[errors |-> <<PlainError(md.err)>>, sections |-> secs, cache |-> md.cache]}
    ELSE IF has.found \/ Len(md.resources) > 0 \/ Len(md.dataSources) > 0
    THEN {[errors |-> a \o b, sections |-> has.sections, cache |-> md.cache] :
             a \in compareTerraformAndMarkdown(tf.resources, md.resources, "Resources"),
             b \in compareTerraformAndMarkdown(tf.dataSources, md.dataSources, "Data Sources")}
    ELSE {[errors |-> <<>>, sections |-> has.sections, cache |-> md.cache]}

\* TerraformDefinitionValidator.Validate for what the TerraformContent
\* extracts (tf): the outcomes it can have, each with the errors returned and
\* the caches of the MarkdownContent it leaves
validateDefinitions(d, secs, cache, tf) ==
    checkDefinitions(secs, cache, tf,
                     extractDocumentResourcesAndDataSources(d, cache),
                     hasSection(d, secs, Resources))

\* the loop of ItemValidator.Validate over its sections: sectionPresent,
\* mdItems and the caches after it
RECURSIVE scanItemSections(_, _, _)
scanItemSections(d, names, st) ==
    IF names = <<>> THEN st
    ELSE LET has == hasSection(d, st.sections, Head(names))
             ex  == extractDocumentSectionItems(d, st.cache, <<Head(names)>>)
         IN  scanItemSections(d, Tail(names),
                 [sectionPresent |-> st.sectionPresent \/ has.found,
                  mdItems |-> st.mdItems \o ex.items,
                  sections |-> has.sections,
                  cache |-> ex.cache])

\* a validateItems that reports a validator none of whose sections is present
validateItemsRequireSection(d, secs, cache, iv, tf) ==
    LET st == scanItemSections(d, iv.sections,
                  [sectionPresent |-> FALSE, mdItems |-> <<>>, sections |-> secs, cache |-> cache])
    IN  IF tf.err # ""
        THEN {[errors |-> <<PlainError(tf.err)>>, sections |-> secs, cache |-> cache]}
        ELSE IF ~st.sectionPresent
        THEN {[errors |-> <<PlainError("section missing")>>, sections |-> st.sections, cache |-> st.cache]}
        ELSE {[errors |-> e, sections |-> st.sections, cache |-> st.cache] :
                 e \in compareTerraformAndMarkdown(tf.items, st.mdItems, iv.itemType)}

\* a validateItems that goes on to compare after the extraction error
validateItemsThrough(d, secs, cache, iv, tf) ==
    LET st == scanItemSections(d, iv.sections,
                  [sectionPresent |-> FALSE, mdItems |-> <<>>, sections |-> secs, cache |-> cache])
        first == IF tf.err # "" THEN <<PlainError(tf.err)>> ELSE <<>>
    IN  {[errors |-> first \o e, sections |-> st.sections, cache |-> st.cache] :
            e \in compareTerraformAndMarkdown(tf.items, st.mdItems, iv.itemType)}

\* the checks of ItemValidator.Validate, given what its loop over the sections
\* has found (st)
checkItems(secs, cache, iv, tf, st) ==
    IF tf.err # ""
    THEN {[errors |-> <<PlainError(tf.err)>>, sections |-> secs, cache |-> cache]}
    ELSE IF ~st.sectionPresent /\ Len(st.mdItems) = 0 /\ Len(tf.items) = 0
    THEN {[errors |-> <<>>, sections |-> st.sections, cache |-> st.cache]}
    ELSE {[errors |-> e, sections |-> st.sections, cache |-> st.cache] :
             e \in compareTerraformAndMarkdown(tf.items, st.mdItems, iv.itemType)}

\* ItemValidator.Validate of the validator iv for what the TerraformContent
\* extracts (tf): the outcomes it can have
validateItems(d, secs, cache, iv, tf) ==
    checkItems(secs, cache, iv, tf,
               scanItemSections(d, iv.sections,
                   [sectionPresent |-> FALSE, mdItems |-> <<>>,
                    sections |-> secs, cache |-> cache]))

\* what TerraformContent.ExtractResourcesAndDataSources returns for the module:
\* no resource, a resource with its qualified name, a data source, a failure
TerraformDefinitions ==
    { [resources |-> <<>>, dataSources |-> <<>>, err |-> ""],
      [resources |-> << <<"p", "_", "r">>, <<"p", "_", "r", ".", "m">> >>, dataSources |-> <<>>, err |-> ""],
      [resources |-> <<>>, dataSources |-> << <<"p", "_", "d">>, <<"p", "_", "d", ".", "c">> >>, err |-> ""],
      [resources |-> <<>>, dataSources |-> <<>>, err |-> "failed to parse"] }

\* what TerraformContent.ExtractModuleItems returns for a block type
TerraformItems ==
    { [items |-> <<>>, err |-> ""],
      [items |-> << <<"x">> >>, err |-> ""],
      [items |-> <<>>, err |-> "failed to parse"] }

\* buildDefaultValidators: the two item validators
ItemValidators ==
    { [itemType |-> "Variables", blockType |-> "variable", sections |-> <<RequiredInputs, OptionalInputs>>],
      [itemType |-> "Outputs", blockType |-> "output", sections |-> <<Outputs>>] }

\* TerraformDefinitionValidator.Validate()
ValidateDefinitions ==
    /\ calls < MaxCalls
    /\ \E tf \in TerraformDefinitions :
          \E r \in validateDefinitions(doc, sections, sectionMatches, tf) :
             /\ sections' = r.sections
             /\ sectionMatches' = r.cache
             /\ lastCall' = [op |-> "TerraformDefinitionValidator.Validate", args |-> tf,
                             result |-> r.errors, path |-> "none"]
    /\ calls' = calls + 1
    /\ UNCHANGED doc
    /\ UNCHANGED <<rvars, mvars, gvars>>

VDNext == ValidateDefinitions

\* ItemValidator.Validate()
ValidateItems ==
    /\ calls < MaxCalls
    /\ \E iv \in ItemValidators, tf \in TerraformItems :
          \E r \in validateItems(doc, sections, sectionMatches, iv, tf) :
             /\ sections' = r.sections
             /\ sectionMatches' = r.cache
             /\ lastCall' = [op |-> "ItemValidator.Validate", args |-> [iv |-> iv, tf |-> tf],
                             result |-> r.errors, path |-> "none"]
    /\ calls' = calls + 1
    /\ UNCHANGED doc
    /\ UNCHANGED <<rvars, mvars, gvars>>

VINext == ValidateItems

\* the documents both kinds of validator are run on: nothing, a documented
\* resource, a link outside a section, a documented variable, a documented
\* output, an anchor without a section
ValidatorDocuments ==
    LET ResourceLink == Paragraph(<<Link(<<"p", "_", "r", ".", "m">>, ResourcesPath)>>)
        Prefixed(blocks, ins) ==
            [blocks |-> blocks, providerPrefixes |-> << <<"p", "_">> >>,
             inputAnchors |-> ins, outputAnchors |-> <<>>]
    IN  { Prefixed(<<>>, <<>>),
          Prefixed(<<Heading(2, Resources), ResourceLink>>, <<>>),
          Prefixed(<<ResourceLink>>, <<>>),
          Prefixed(<<Heading(2, RequiredInputs), Heading(3, <<"x">>)>>, <<>>),
          Prefixed(<<Heading(2, Outputs), Heading(3, <<"x">>)>>, <<>>),
          Prefixed(<<>>, << <<"x">> >>) }

\* NewMarkdownContent on one of these documents
VInit ==
    /\ doc \in ValidatorDocuments
    /\ sections = <<>>
    /\ sectionMatches = <<>>
    /\ calls = 0
    /\ lastCall = NoCall

VNext == ValidateDefinitions \/ ValidateItems

-----------------------------------------------------------------------------
(* validator.go: the ReadmeValidator *)

\* buildDefaultValidators: the validators, in the order of the list
defaultValidators ==
    <<"SectionValidator", "FileValidator", "URLValidator",
      "TerraformDefinitionValidator", "ItemValidator Variables", "ItemValidator Outputs">>

\* ErrorCollector.AddMany: nil errors are left out
AddMany(errs, more) ==
    LET NotNil(e) == e # PlainError("")
    IN  errs \o SelectSeq(more, NotNil)

\* a ReadmeValidator.Validate that stops after the first validator that
\* reports errors
RECURSIVE runUntilError(_, _, _)
runUntilError(validators, outcome, st) ==
    IF validators = <<>> \/ st.errors # <<>> THEN st
    ELSE runUntilError(Tail(validators), outcome,
             [ran |-> Append(st.ran, Head(validators)),
              errors |-> AddMany(st.errors, outcome[Head(validators)])])

\* the loop of ReadmeValidator.Validate: the validators run and the errors
\* collected, given what the Validate of each validator returns
RECURSIVE runValidators(_, _, _)
runValidators(validators, outcome, st) ==
    IF validators = <<>> THEN st
    ELSE runValidators(Tail(validators), outcome,
             [ran |-> Append(st.ran, Head(validators)),
              errors |-> AddMany(st.errors, outcome[Head(validators)])])

\* the error lists the Validate of a validator returns: none, one error, two
ValidatorOutcomes(v) ==
    { <<>>, <<PlainError(v)>>, <<PlainError(v), PlainError("another error")>> }

\* NewReadmeValidator
OInit ==
    /\ doc = NoDocument
    /\ sections = <<>>
    /\ sectionMatches = <<>>
    /\ calls = 0
    /\ lastCall = NoCall

\* ReadmeValidator.Validate()
ValidateReadme ==
    /\ calls = 0
    /\ \E outcome \in [Range(defaultValidators) -> UNION {ValidatorOutcomes(v) : v \in Range(defaultValidators)}] :
          /\ \A v \in Range(defaultValidators) : outcome[v] \in ValidatorOutcomes(v)
          /\ LET r == runValidators(defaultValidators, outcome, [ran |-> <<>>, errors |-> <<>>])
             IN  lastCall' = [op |-> "ReadmeValidator.Validate", args |-> outcome,
                              result |-> r.errors, path |-> r.ran]
    /\ calls' = 1
    /\ UNCHANGED <<doc, sections, sectionMatches>>
    /\ UNCHANGED <<rvars, mvars, gvars>>

ONext == ValidateReadme

-----------------------------------------------------------------------------
(* MarkdownContent: format detection *)

\* MarkdownFormat
FormatDocument == "document"
FormatTable == "table"

\* an *ast.Table and an *ast.CodeBlock with its Literal, children of the root
\* node like the headings and the paragraphs
Table == [level |-> 0, text |-> <<>>, links |-> <<>>, table |-> TRUE]
CodeBlock(literal) == [level |-> 0, text |-> <<>>, links |-> <<>>, literal |-> literal]
IsTable(b) == "table" \in DOMAIN b
IsCodeBlock(b) == "literal" \in DOMAIN b
IsParagraph(b) == ~IsHeading(b) /\ ~IsTable(b) /\ ~IsCodeBlock(b)

\* the sections detectFormatHeuristic analyzes, in its order
sectionsToCheck ==
    <<Inputs, RequiredInputs, OptionalInputs, Outputs, Resources, Requirements, Providers>>

\* analyzeSection: the walk keeps the last level-2 heading whose trimmed text
\* equals sectionName under case folding, then looks at what follows it
analyzeSection(d, sectionName) ==
    LET found == {h \in Range(h2Headings(d)) :
                      EqualFold(TrimSpace(headingText(d, h)), sectionName)}
    IN  IF found = {} THEN ""
        ELSE LET sectionHeading == CHOOSE h \in found : \A g \in found : g <= h
                 next == sectionHeading + 1
             IN  IF next > Len(d.blocks) THEN ""
                 ELSE IF IsTable(d.blocks[next]) THEN FormatTable
                 ELSE IF /\ IsParagraph(d.blocks[next])
                         /\ next + 1 <= Len(d.blocks)
                         /\ d.blocks[next + 1].level = 3 THEN FormatDocument
                 ELSE IF d.blocks[next].level = 3 THEN FormatDocument
                 ELSE ""

\* hasLevel3Headings
hasLevel3Headings(d) == \E i \in 1..Len(d.blocks) : d.blocks[i].level = 3

\* the substrings hasTypeCodeBlocks looks for
ObjectType == <<"o", "b", "j", "e", "c", "t", "(">>
ListType == <<"l", "i", "s", "t", "(">>
MapType == <<"m", "a", "p", "(">>

\* hasTypeCodeBlocks
hasTypeCodeBlocks(d) ==
    \E i \in 1..Len(d.blocks) :
        /\ IsCodeBlock(d.blocks[i])
        /\ \/ Contains(d.blocks[i].literal, ObjectType)
           \/ Contains(d.blocks[i].literal, ListType)
           \/ Contains(d.blocks[i].literal, MapType)

\* hasMultipleTableStructures: tableCount > 1
hasMultipleTableStructures(d) ==
    Cardinality({i \in 1..Len(d.blocks) : IsTable(d.blocks[i])}) > 1

\* the loop of detectFormatHeuristic over sectionsToCheck
RECURSIVE scoreSections(_, _, _)
scoreSections(d, names, st) ==
    IF names = <<>> THEN st
    ELSE LET format == analyzeSection(d, Head(names))
         IN  scoreSections(d, Tail(names),
                 IF format = FormatDocument THEN [st EXCEPT !.documentScore = @ + 1]
                 ELSE IF format = FormatTable THEN [st EXCEPT !.tableScore = @ + 1]
                 ELSE st)

\* the level-3 bonus of detectFormatHeuristic
addLevel3Bonus(d, st) ==
    IF hasLevel3Headings(d) THEN [st EXCEPT !.documentScore = @ + 2] ELSE st

\* the secondary heuristics of detectFormatHeuristic
addSecondary(d, st) ==
    LET typed == IF hasTypeCodeBlocks(d) THEN [st EXCEPT !.documentScore = @ + 1] ELSE st
    IN  IF hasMultipleTableStructures(d) THEN [typed EXCEPT !.tableScore = @ + 1] ELSE typed

\* the winner of detectFormatHeuristic
detectedFormat(st) ==
    IF st.documentScore > st.tableScore THEN FormatDocument
    ELSE IF st.tableScore > st.documentScore THEN FormatTable
    ELSE FormatDocument

\* detectFormatHeuristic with the secondary heuristics applied on every document
detectFormatAlwaysSecondary(d) ==
    LET primary == addLevel3Bonus(d, scoreSections(d, sectionsToCheck,
                                        [documentScore |-> 0, tableScore |-> 0]))
        final == addSecondary(d, primary)
    IN  [documentScore |-> final.documentScore, tableScore |-> final.tableScore,
         format |-> detectedFormat(final)]

\* detectFormatHeuristic: (documentScore, tableScore, detectedFormat)
detectFormatHeuristic(d) ==
    LET primary == addLevel3Bonus(d, scoreSections(d, sectionsToCheck,
                                        [documentScore |-> 0, tableScore |-> 0]))
        final == IF primary.documentScore = primary.tableScore
                 THEN addSecondary(d, primary) ELSE primary
    IN  [documentScore |-> final.documentScore, tableScore |-> final.tableScore,
         format |-> detectedFormat(final)]

\* the nodes of the documents whose format is detected
FormatNodes ==
    {Heading(2, Inputs), Heading(2, ToLower(Outputs)), Heading(3, <<"x">>),
     Paragraph(<<>>), Table, CodeBlock(MapType)}

\* NewMarkdownContent of a document of up to MaxNodes nodes
FInit ==
    /\ doc \in [blocks : SeqsUpTo(FormatNodes, MaxNodes),
                providerPrefixes : {<<>>},
                inputAnchors : {<<>>},
                outputAnchors : {<<>>}]
    /\ sections = <<>>
    /\ sectionMatches = <<>>
    /\ calls = 0
    /\ lastCall = NoCall

\* NewMarkdownContent with FormatAuto: the one call of detectFormatHeuristic()
DetectFormat ==
    /\ calls = 0
    /\ LET r == detectFormatHeuristic(doc)
       IN  lastCall' = [op |-> "detectFormatHeuristic", args |-> <<>>,
                        result |-> r, path |-> r.format]
    /\ calls' = 1
    /\ UNCHANGED <<doc, sections, sectionMatches>>
    /\ UNCHANGED <<rvars, mvars, gvars>>

FNext == DetectFormat

-----------------------------------------------------------------------------
(* Table columns *)

Name == <<"N", "a", "m", "e">>
Type == <<"T", "y", "p", "e">>
Version == <<"V", "e", "r", "s", "i", "o", "n">>
Description == <<"D", "e", "s", "c", "r", "i", "p", "t", "i", "o", "n">>
Required == <<"R", "e", "q", "u", "i", "r", "e", "d">>
Default == <<"D", "e", "f", "a", "u", "l", "t">>

\* the columns a section's table must and may have: sectionConfig of
\* NewMarkdownContent; the Sections of the first NewSectionValidator list the
\* same columns
sectionConfig ==
    [s \in {Resources, Providers, Requirements, Inputs, RequiredInputs, OptionalInputs, Outputs} |->
        IF s = Resources THEN [required |-> <<Name, Type>>, optional |-> <<>>]
        ELSE IF s \in {Providers, Requirements}
             THEN [required |-> <<Name, Version>>, optional |-> <<>>]
        ELSE IF s = Outputs THEN [required |-> <<Name, Description>>, optional |-> <<>>]
        ELSE [required |-> <<Name, Description, Required>>, optional |-> <<Type, Default>>]]

\* the errors of the two validateColumns, by the parts of their messages
\* "%s: column '%s' should be '%s'"
ShouldBeError(sectionName, act, original) ==
    [kind |-> "column should be", section |-> sectionName, column |-> act, hint |-> original]
\* "%s: unexpected column '%s' (did you mean '%s'?)"
DidYouMeanError(sectionName, act, original) ==
    [kind |-> "unexpected column (did you mean)", section |-> sectionName,
     column |-> act, hint |-> original]
\* "%s: unexpected column '%s'"
UnexpectedColumnError(sectionName, act) ==
    [kind |-> "unexpected column", section |-> sectionName, column |-> act]
\* "%s: missing required column '%s'"
MissingColumnError(sectionName, original) ==
    [kind |-> "missing required column", section |-> sectionName, column |-> original]
\* "unexpected column '%s' in table under header: %s"
UnexpectedUnderHeaderError(act, header) ==
    [kind |-> "unexpected column in table under header", section |-> header, column |-> act]
\* "missing required column '%s' in table under header: %s"
MissingUnderHeaderError(req, header) ==
    [kind |-> "missing required column in table under header", section |-> header,
     column |-> req]

\* isSimilarColumn
isSimilarColumn(a, b) ==
    \/ a \o <<"s">> = b
    \/ a = b \o <<"s">>
    \/ levenshtein(a, b) <= 2

\* the map lowercase -> original that MarkdownContent.validateColumns builds:
\* a later column overwrites an earlier one of the same lowercase
lowerMap(cols) ==
    [k \in {ToLower(cols[i]) : i \in 1..Len(cols)} |->
        cols[CHOOSE i \in 1..Len(cols) :
                /\ ToLower(cols[i]) = k
                /\ \A j \in 1..Len(cols) : ToLower(cols[j]) = k => j <= i]]

\* the first pass of MarkdownContent.validateColumns over the actual columns.
\* Each range over a map runs in an order of its own, so the close match that
\* breaks the loop is any of the similar columns: the set of the final states
RECURSIVE checkActualColumns(_, _, _, _, _)
checkActualColumns(sectionName, requiredLower, optionalLower, act, st) ==
    IF act = <<>> THEN {st}
    ELSE LET col == Head(act)
             actualLower == ToLower(col)
             closeRequired == {r \in DOMAIN requiredLower : isSimilarColumn(actualLower, r)}
             closeOptional == {o \in DOMAIN optionalLower : isSimilarColumn(actualLower, o)}
             Rest(next) == checkActualColumns(sectionName, requiredLower, optionalLower,
                                              Tail(act), next)
         IN  IF actualLower \in DOMAIN requiredLower
             THEN Rest([st EXCEPT
                     !.foundRequiredExact = @ \cup {actualLower},
                     !.errors = IF col # requiredLower[actualLower]
                                THEN Append(@, ShouldBeError(sectionName, col, requiredLower[actualLower]))
                                ELSE @])
             ELSE IF actualLower \in DOMAIN optionalLower
             THEN Rest([st EXCEPT
                     !.errors = IF col # optionalLower[actualLower]
                                THEN Append(@, ShouldBeError(sectionName, col, optionalLower[actualLower]))
                                ELSE @])
             ELSE IF closeRequired # {}
             THEN UNION {Rest([st EXCEPT
                     !.foundRequiredClose = @ \cup {r},
                     !.errors = Append(@, DidYouMeanError(sectionName, col, requiredLower[r]))])
                         : r \in closeRequired}
             ELSE IF closeOptional # {}
             THEN UNION {Rest([st EXCEPT
                     !.errors = Append(@, DidYouMeanError(sectionName, col, optionalLower[o]))])
                         : o \in closeOptional}
             ELSE Rest([st EXCEPT !.errors = Append(@, UnexpectedColumnError(sectionName, col))])

\* the second pass of MarkdownContent.validateColumns: the required columns
\* found neither exactly nor closely, in the order of the map's iteration
missingColumnErrors(sectionName, requiredLower, st) ==
    LET missing == DOMAIN requiredLower \ (st.foundRequiredExact \cup st.foundRequiredClose)
    IN  {[i \in 1..Len(o) |-> MissingColumnError(sectionName, requiredLower[o[i]])]
            : o \in Orderings(missing)}

\* MarkdownContent.validateColumns: the lists of errors it can return
MarkdownContent_validateColumns(sectionName, required, optional, act) ==
    LET requiredLower == lowerMap(required)
        optionalLower == lowerMap(optional)
        passed == checkActualColumns(sectionName, requiredLower, optionalLower, act,
                      [errors |-> <<>>, foundRequiredExact |-> {}, foundRequiredClose |-> {}])
    IN  UNION {{st.errors \o missing
                  : missing \in missingColumnErrors(sectionName, requiredLower, st)}
               : st \in passed}

\* validateColumns of utils.go: the list of errors it returns
validateColumns(header, required, optional, act) ==
    LET validColumns == Range(required) \cup Range(optional)
        Invalid(col) == col \notin validColumns
        invalid == SelectSeq(act, Invalid)
        unexpected == [i \in 1..Len(invalid) |-> UnexpectedUnderHeaderError(invalid[i], header)]
        foundColumns == Range(act)
        NotFound(req) == req \notin foundColumns
        lacking == SelectSeq(required, NotFound)
    IN  IF invalid # <<>> THEN unexpected
        ELSE [i \in 1..Len(lacking) |-> MissingUnderHeaderError(lacking[i], header)]

\* the header cells of the tables: right, short, plural, lower-case and
\* misspelt columns
Ver == <<"V", "e", "r">>
Versions == Version \o <<"s">>
Nape == <<"N", "a", "p", "e">>
HeaderColumns == {Name, Type, Version, Ver, Versions, ToLower(Name), Nape}

\* the sections whose tables are validated
ColumnSections == {Resources, Providers, Inputs}

CInit ==
    /\ doc = NoDocument
    /\ sections = <<>>
    /\ sectionMatches = <<>>
    /\ calls = 0
    /\ lastCall = NoCall

\* Section.validate: validateColumns on the headers of the section's table
ValidateColumns ==
    /\ calls = 0
    /\ \E s \in ColumnSections, act \in SeqsUpTo(HeaderColumns, MaxColumns) :
          lastCall' = [op |-> "validateColumns",
                       args |-> [sectionName |-> s, required |-> sectionConfig[s].required,
                                 optional |-> sectionConfig[s].optional, actual |-> act],
                       result |-> validateColumns(s, sectionConfig[s].required,
                                                  sectionConfig[s].optional, act),
                       path |-> "none"]
    /\ calls' = 1
    /\ UNCHANGED <<doc, sections, sectionMatches>>
    /\ UNCHANGED <<rvars, mvars, gvars>>

\* ValidateTableColumns: MarkdownContent.validateColumns on the headers of
\* one section's table
ValidateTableColumns ==
    /\ calls = 0
    /\ \E s \in ColumnSections, act \in SeqsUpTo(HeaderColumns, MaxColumns) :
          \E errs \in MarkdownContent_validateColumns(s, sectionConfig[s].required,
                                                      sectionConfig[s].optional, act) :
              lastCall' = [op |-> "MarkdownContent.validateColumns",
                           args |-> [sectionName |-> s, required |-> sectionConfig[s].required,
                                     optional |-> sectionConfig[s].optional, actual |-> act],
                           result |-> errs,
                           path |-> "none"]
    /\ calls' = 1
    /\ UNCHANGED <<doc, sections, sectionMatches>>
    /\ UNCHANGED <<rvars, mvars, gvars>>

CNext == ValidateColumns \/ ValidateTableColumns

-----------------------------------------------------------------------------
(* urls.go: the URLValidator *)

\* "registry.terraform.io/providers/"
RegistryProviders ==
    <<"r", "e", "g", "i", "s", "t", "r", "y", ".", "t", "e", "r", "r", "a", "f", "o", "r", "m", ".", "i", "o", "/", "p", "r", "o", "v", "i", "d", "e", "r", "s", "/">>

\* URLs that xurls finds in a document: a plain one, one of a page that does
\* not exist, one of a host that does not answer, one of a provider of the
\* registry and one of a module of the registry
BrokenURL == <<"h", "t", "t", "p", "s", ":", "/", "/", "b", ".", "i", "o">>
UnreachableURL == <<"h", "t", "t", "p", "s", ":", "/", "/", "c", ".", "i", "o">>
PlainURL == <<"h", "t", "t", "p", "s", ":", "/", "/", "a", ".", "i", "o">>
ProviderURL == <<"h", "t", "t", "p", "s", ":", "/", "/">> \o RegistryProviders \o <<"x">>
ModuleURL ==
    <<"h", "t", "t", "p", "s", ":", "/", "/", "r", "e", "g", "i", "s", "t", "r", "y", ".", "t", "e", "r", "r", "a", "f", "o", "r", "m", ".", "i", "o", "/", "m", "o", "d", "u", "l", "e", "s", "/", "x">>

\* const maxConcurrency
maxConcurrency == 5

\* the capacity of resourceChan, dataSourceChan and errChan
chanCapacity == 2

\* no URLValidator.Validate call and no ExtractResourcesAndDataSources call of
\* a TerraformContent
NoValidate == [main |-> "none"]
NoExtract == [main |-> "none"]
GQuiet == uv = NoValidate /\ tc = NoExtract

\* the lists FindAllString returns: up to MaxURLs occurrences of the broken
\* URL, fewer of the plain one, and lists with URLs of the registry
URLLists ==
    {[k \in 1..n |-> BrokenURL] : n \in 0..MaxURLs}
        \cup {[k \in 1..n |-> PlainURL] : n \in 1..(MaxURLs \div 2)}
        \cup {<<ProviderURL>>, <<UnreachableURL, ProviderURL, PlainURL, ModuleURL>>}

\* what httpClient.Get can give for a URL: an error, or a response with a status
Responses(url) ==
    IF url = UnreachableURL THEN {"error"}
    ELSE IF url = BrokenURL THEN {"404"}
    ELSE IF url = ModuleURL THEN {"200"}
    ELSE {"200", "404"}

\* the nil error
NilError == [kind |-> "nil"]

\* validateSingleURL, given what httpClient.Get gives: the error or nil
validateSingleURL(url, response) ==
    IF response = "error" THEN [kind |-> "error accessing URL", url |-> url]
    ELSE IF response # "200"
    THEN [kind |-> "URL returned non-OK status", url |-> url, status |-> response]
    ELSE NilError

\* URLValidator.Validate up to the loop: urls found, sem and errChan made
UInit ==
    /\ \E urls \in URLLists :
          uv = [urls |-> urls,
                main |-> "loop",           \* where the calling goroutine is
                i |-> 1,                   \* the index of the loop over urls
                wg |-> 0,                  \* the counter of the WaitGroup
                sem |-> 0,                 \* len(sem)
                errChan |-> <<>>,          \* the errors buffered in errChan, cap len(urls)
                closed |-> FALSE,          \* errChan is closed
                pc |-> [k \in 1..Len(urls) |-> "none"],    \* the goroutine of urls[k]
                err |-> [k \in 1..Len(urls) |-> NilError],   \* what its validateSingleURL returned
                errors |-> <<>>]           \* the list Validate returns
    /\ tc = NoExtract
    /\ doc = NoDocument
    /\ sections = <<>>
    /\ sectionMatches = <<>>
    /\ calls = 0
    /\ lastCall = NoCall

\* the loop over urls: a URL of a provider of the registry is skipped
SkipURL ==
    /\ uv.main = "loop"
    /\ uv.i <= Len(uv.urls)
    /\ Contains(uv.urls[uv.i], RegistryProviders)
    /\ uv' = [uv EXCEPT !.i = @ + 1]
    /\ UNCHANGED <<tc, rvars, mvars, dvars>>

\* the loop over urls: wg.Add(1) and the go statement
StartWorker ==
    /\ uv.main = "loop"
    /\ uv.i <= Len(uv.urls)
    /\ ~Contains(uv.urls[uv.i], RegistryProviders)
    /\ uv' = [uv EXCEPT !.wg = @ + 1, !.pc[uv.i] = "acquire", !.i = @ + 1]
    /\ UNCHANGED <<tc, rvars, mvars, dvars>>

\* the end of the loop
EndLoop ==
    /\ uv.main = "loop"
    /\ uv.i > Len(uv.urls)
    /\ uv' = [uv EXCEPT !.main = "wait"]
    /\ UNCHANGED <<tc, rvars, mvars, dvars>>

\* a goroutine that takes its slot whether or not sem has room
AcquireUnbounded(k) ==
    /\ uv.main # "none"
    /\ k \in DOMAIN uv.pc
    /\ uv.pc[k] = "acquire"
    /\ uv' = [uv EXCEPT !.sem = @ + 1, !.pc[k] = "check"]
    /\ UNCHANGED <<tc, rvars, mvars, dvars>>

\* sem <- struct{}{}: blocks while sem holds maxConcurrency values; the
\* goroutine then calls validateSingleURL
Acquire(k) ==
    /\ uv.main # "none"
    /\ k \in DOMAIN uv.pc
    /\ uv.pc[k] = "acquire"
    /\ uv.sem < maxConcurrency
    /\ uv' = [uv EXCEPT !.sem = @ + 1, !.pc[k] = "check"]
    /\ UNCHANGED <<tc, rvars, mvars, dvars>>

\* validateSingleURL returns
Check(k) ==
    /\ uv.main # "none"
    /\ k \in DOMAIN uv.pc
    /\ uv.pc[k] = "check"
    /\ \E response \in Responses(uv.urls[k]) :
          LET err == validateSingleURL(uv.urls[k], response)
          IN  uv' = [uv EXCEPT !.err[k] = err,
                               !.pc[k] = IF err # NilError THEN "send" ELSE "release"]
    /\ UNCHANGED <<tc, rvars, mvars, dvars>>

\* errChan <- err: blocks while errChan is full, panics when it is closed
Send(k) ==
    /\ uv.main # "none"
    /\ k \in DOMAIN uv.pc
    /\ uv.pc[k] = "send"
    /\ \/ /\ uv.closed
          /\ uv' = [uv EXCEPT !.pc[k] = "panic"]
       \/ /\ ~uv.closed
          /\ Len(uv.errChan) < Len(uv.urls)
          /\ uv' = [uv EXCEPT !.errChan = Append(@, uv.err[k]), !.pc[k] = "release"]
    /\ UNCHANGED <<tc, rvars, mvars, dvars>>

\* a goroutine that returns without the deferred <-sem
ReleaseKeeping(k) ==
    /\ uv.main # "none"
    /\ k \in DOMAIN uv.pc
    /\ uv.pc[k] = "release"
    /\ uv' = [uv EXCEPT !.pc[k] = "done"]
    /\ UNCHANGED <<tc, rvars, mvars, dvars>>

\* the deferred <-sem
Release(k) ==
    /\ uv.main # "none"
    /\ k \in DOMAIN uv.pc
    /\ uv.pc[k] = "release"
    /\ uv' = [uv EXCEPT !.sem = @ - 1, !.pc[k] = "done"]
    /\ UNCHANGED <<tc, rvars, mvars, dvars>>

\* the deferred wg.Done()
Done(k) ==
    /\ uv.main # "none"
    /\ k \in DOMAIN uv.pc
    /\ uv.pc[k] = "done"
    /\ uv' = [uv EXCEPT !.wg = @ - 1, !.pc[k] = "finished"]
    /\ UNCHANGED <<tc, rvars, mvars, dvars>>

\* a Validate that does not wait for its goroutines
WaitNoBarrier ==
    /\ uv.main = "wait"
    /\ uv' = [uv EXCEPT !.main = "close"]
    /\ UNCHANGED <<tc, rvars, mvars, dvars>>

\* wg.Wait() returns
Wait ==
    /\ uv.main = "wait"
    /\ uv.wg = 0
    /\ uv' = [uv EXCEPT !.main = "close"]
    /\ UNCHANGED <<tc, rvars, mvars, dvars>>

\* close(errChan)
Close ==
    /\ uv.main = "close"
    /\ uv' = [uv EXCEPT !.closed = TRUE, !.main = "range"]
    /\ UNCHANGED <<tc, rvars, mvars, dvars>>

\* the loop over errChan and the return: a range over a closed channel ends
\* when its buffer is empty
Return ==
    /\ uv.main = "range"
    /\ uv.closed
    /\ uv' = [uv EXCEPT !.errors = uv.errChan, !.errChan = <<>>, !.main = "returned"]
    /\ UNCHANGED <<tc, rvars, mvars, dvars>>

\* a step of the goroutine of urls[k]
Worker(k) == Acquire(k) \/ Check(k) \/ Send(k) \/ Release(k) \/ Done(k)

\* a step of the calling goroutine
Main == SkipURL \/ StartWorker \/ EndLoop \/ Wait \/ Close \/ Return

UNext ==
    \/ SkipURL \/ StartWorker \/ EndLoop \/ Wait \/ Close \/ Return
    \/ \E k \in 1..MaxURLs :
          Acquire(k) \/ Check(k) \/ Send(k) \/ Release(k) \/ Done(k)

-----------------------------------------------------------------------------
(* The concurrent TerraformContent.ExtractResourcesAndDataSources *)

\* what extractFromFilePath can return for caller/main.tf: the resources and
\* data sources of the file, nothing for a file that is absent, or an error
MainOutcomes ==
    { [resources |-> <<"a", "a.x">>, dataSources |-> <<"d", "d.y">>, err |-> NilError],
      [resources |-> <<>>, dataSources |-> <<>>, err |-> NilError],
      [resources |-> <<>>, dataSources |-> <<>>, err |-> PlainError("error reading file main.tf")] }

\* what extractRecursively can return for caller/modules
ModulesOutcomes ==
    { [resources |-> <<"b", "b.x">>, dataSources |-> <<"e", "e.y">>, err |-> NilError],
      [resources |-> <<"a">>, dataSources |-> <<>>, err |-> NilError],
      [resources |-> <<>>, dataSources |-> <<>>, err |-> PlainError("error parsing HCL in m.tf")] }

NoOutcome == [resources |-> <<>>, dataSources |-> <<>>, err |-> NilError]
NoResult == [resources |-> <<>>, dataSources |-> <<>>, err |-> [kind |-> "none"]]

\* os.IsNotExist
IsNotExist(err) == err.kind = "not exist"

\* the call after wg.Add(2) and the three go statements
TInit ==
    /\ tc = [main |-> "resources",          \* the loop the calling goroutine is in
             pc |-> <<"extract", "extract">>,   \* the main.tf and the modules goroutine
             out |-> <<NoOutcome, NoOutcome>>,  \* what their extraction returned
             closer |-> "wait",             \* the goroutine that closes the channels
             wg |-> 2,                      \* the counter of the WaitGroup
             resourceChan |-> <<>>,         \* the three channels, of capacity 2 each
             dataSourceChan |-> <<>>,
             errChan |-> <<>>,
             closed |-> [resourceChan |-> 0, dataSourceChan |-> 0, errChan |-> 0],
             panic |-> FALSE,               \* a send on a closed channel
             resources |-> <<>>,
             dataSources |-> <<>>,
             result |-> NoResult]
    /\ uv = NoValidate
    /\ doc = NoDocument
    /\ sections = <<>>
    /\ sectionMatches = <<>>
    /\ calls = 0
    /\ lastCall = NoCall

\* the first goroutine: tc.extractFromFilePath(mainPath) returns
ExtractMain ==
    /\ tc.main # "none"
    /\ tc.pc[1] = "extract"
    /\ \E o \in MainOutcomes :
          tc' = [tc EXCEPT !.out[1] = o,
                           !.pc[1] = IF o.err # NilError /\ ~IsNotExist(o.err)
                                     THEN "sendErr" ELSE "sendResources"]
    /\ UNCHANGED <<uv, rvars, mvars, dvars>>

\* the second goroutine: tc.extractRecursively(modulesPath) returns
ExtractModules ==
    /\ tc.main # "none"
    /\ tc.pc[2] = "extract"
    /\ \E o \in ModulesOutcomes :
          tc' = [tc EXCEPT !.out[2] = o,
                           !.pc[2] = IF o.err # NilError THEN "sendErr" ELSE "sendResources"]
    /\ UNCHANGED <<uv, rvars, mvars, dvars>>

\* errChan <- err; return
SendErr(w) ==
    /\ tc.main # "none"
    /\ tc.pc[w] = "sendErr"
    /\ \/ /\ tc.closed.errChan > 0
          /\ tc' = [tc EXCEPT !.panic = TRUE, !.pc[w] = "panicked"]
       \/ /\ tc.closed.errChan = 0
          /\ Len(tc.errChan) < chanCapacity
          /\ tc' = [tc EXCEPT !.errChan = Append(@, tc.out[w].err), !.pc[w] = "exit"]
    /\ UNCHANGED <<uv, rvars, mvars, dvars>>

\* resourceChan <- the resources of the goroutine
SendResources(w) ==
    /\ tc.main # "none"
    /\ tc.pc[w] = "sendResources"
    /\ \/ /\ tc.closed.resourceChan > 0
          /\ tc' = [tc EXCEPT !.panic = TRUE, !.pc[w] = "panicked"]
       \/ /\ tc.closed.resourceChan = 0
          /\ Len(tc.resourceChan) < chanCapacity
          /\ tc' = [tc EXCEPT !.resourceChan = Append(@, tc.out[w].resources),
                              !.pc[w] = "sendDataSources"]
    /\ UNCHANGED <<uv, rvars, mvars, dvars>>

\* dataSourceChan <- the data sources of the goroutine
SendDataSources(w) ==
    /\ tc.main # "none"
    /\ tc.pc[w] = "sendDataSources"
    /\ \/ /\ tc.closed.dataSourceChan > 0
          /\ tc' = [tc EXCEPT !.panic = TRUE, !.pc[w] = "panicked"]
       \/ /\ tc.closed.dataSourceChan = 0
          /\ Len(tc.dataSourceChan) < chanCapacity
          /\ tc' = [tc EXCEPT !.dataSourceChan = Append(@, tc.out[w].dataSources),
                              !.pc[w] = "exit"]
    /\ UNCHANGED <<uv, rvars, mvars, dvars>>

\* the deferred wg.Done()
WorkerDone(w) ==
    /\ tc.main # "none"
    /\ tc.pc[w] = "exit"
    /\ tc' = [tc EXCEPT !.wg = @ - 1, !.pc[w] = "done"]
    /\ UNCHANGED <<uv, rvars, mvars, dvars>>

\* a closing goroutine that does not wait for the two others
WaitWorkersNoBarrier ==
    /\ tc.main # "none"
    /\ tc.closer = "wait"
    /\ tc' = [tc EXCEPT !.closer = "closeResourceChan"]
    /\ UNCHANGED <<uv, rvars, mvars, dvars>>

\* the third goroutine: wg.Wait() returns
WaitWorkers ==
    /\ tc.main # "none"
    /\ tc.closer = "wait"
    /\ tc.wg = 0
    /\ tc' = [tc EXCEPT !.closer = "closeResourceChan"]
    /\ UNCHANGED <<uv, rvars, mvars, dvars>>

\* close(resourceChan)
CloseResourceChan ==
    /\ tc.main # "none"
    /\ tc.closer = "closeResourceChan"
    /\ tc' = [tc EXCEPT !.closed.resourceChan = @ + 1, !.closer = "closeDataSourceChan"]
    /\ UNCHANGED <<uv, rvars, mvars, dvars>>

\* close(dataSourceChan)
CloseDataSourceChan ==
    /\ tc.main # "none"
    /\ tc.closer = "closeDataSourceChan"
    /\ tc' = [tc EXCEPT !.closed.dataSourceChan = @ + 1, !.closer = "closeErrChan"]
    /\ UNCHANGED <<uv, rvars, mvars, dvars>>

\* close(errChan)
CloseErrChan ==
    /\ tc.main # "none"
    /\ tc.closer = "closeErrChan"
    /\ tc' = [tc EXCEPT !.closed.errChan = @ + 1, !.closer = "done"]
    /\ UNCHANGED <<uv, rvars, mvars, dvars>>

\* for r := range resourceChan: one receive, or the end of the loop once the
\* channel is closed and drained
RangeResources ==
    /\ tc.main = "resources"
    /\ IF tc.resourceChan # <<>>
       THEN tc' = [tc EXCEPT !.resources = @ \o Head(tc.resourceChan),
                             !.resourceChan = Tail(@)]
       ELSE /\ tc.closed.resourceChan > 0
            /\ tc' = [tc EXCEPT !.main = "dataSources"]
    /\ UNCHANGED <<uv, rvars, mvars, dvars>>

\* for ds := range dataSourceChan
RangeDataSources ==
    /\ tc.main = "dataSources"
    /\ IF tc.dataSourceChan # <<>>
       THEN tc' = [tc EXCEPT !.dataSources = @ \o Head(tc.dataSourceChan),
                             !.dataSourceChan = Tail(@)]
       ELSE /\ tc.closed.dataSourceChan > 0
            /\ tc' = [tc EXCEPT !.main = "errors"]
    /\ UNCHANGED <<uv, rvars, mvars, dvars>>

\* for err := range errChan: the first error is returned; without one the
\* two lists are
RangeErrors ==
    /\ tc.main = "errors"
    /\ IF tc.errChan # <<>>
       THEN IF Head(tc.errChan) # NilError
            THEN tc' = [tc EXCEPT !.errChan = Tail(@), !.main = "returned",
                                  !.result = [resources |-> <<>>, dataSources |-> <<>>,
                                              err |-> Head(tc.errChan)]]
            ELSE tc' = [tc EXCEPT !.errChan = Tail(@)]
       ELSE /\ tc.closed.errChan > 0
            /\ tc' = [tc EXCEPT !.main = "returned",
                                !.result = [resources |-> tc.resources,
                                            dataSources |-> tc.dataSources,
                                            err |-> NilError]]
    /\ UNCHANGED <<uv, rvars, mvars, dvars>>

\* the steps of the goroutines and of the caller
MainWorker == ExtractMain \/ SendErr(1) \/ SendResources(1) \/ SendDataSources(1) \/ WorkerDone(1)
ModulesWorker ==
    ExtractModules \/ SendErr(2) \/ SendResources(2) \/ SendDataSources(2) \/ WorkerDone(2)
Closer == WaitWorkers \/ CloseResourceChan \/ CloseDataSourceChan \/ CloseErrChan
Caller == RangeResources \/ RangeDataSources \/ RangeErrors

TCNext ==
    \/ ExtractMain \/ ExtractModules
    \/ WaitWorkers \/ CloseResourceChan \/ CloseDataSourceChan \/ CloseErrChan
    \/ RangeResources \/ RangeDataSources \/ RangeErrors
    \/ \E w \in 1..2 : SendErr(w) \/ SendResources(w) \/ SendDataSources(w) \/ WorkerDone(w)

-----------------------------------------------------------------------------
(* The specifications *)

\* calls of compareTerraformAndMarkdown; the matcher and the MarkdownContent
\* stay as they are
Init == RInit /\ MQuiet /\ DQuiet /\ GQuiet
Spec == Init /\ [][RNext]_vars

\* calls of matchesSectionName; the reconciler and the MarkdownContent stay
\* as they are
InitMatch == RQuiet /\ MInit /\ DQuiet /\ GQuiet
SpecMatch == InitMatch /\ [][MNext]_vars

\* calls of levenshtein on the same names
SpecDistance == InitMatch /\ [][TNext]_vars

\* calls on one MarkdownContent; the reconciler and the matcher stay as they
\* are
InitContent == RQuiet /\ MQuiet /\ DInit /\ GQuiet
SpecContent == InitContent /\ [][DNext]_vars

\* one SectionValidator on one MarkdownContent
InitSections == RQuiet /\ MQuiet /\ SInit /\ GQuiet
SpecSections == InitSections /\ [][SNext]_vars

\* calls on one MarkdownContent of a document with links
InitLinks == RQuiet /\ MQuiet /\ LInit /\ GQuiet
SpecLinks == InitLinks /\ [][LNext]_vars

\* one ReadmeValidator
InitReadme == RQuiet /\ MQuiet /\ OInit /\ GQuiet
SpecReadme == InitReadme /\ [][ONext]_vars

\* resource and item validators on one MarkdownContent
InitValidators == RQuiet /\ MQuiet /\ VInit /\ GQuiet
SpecValidators == InitValidators /\ [][VNext]_vars

\* resource validators on one MarkdownContent of a document with links
SpecDefinitions == InitLinks /\ [][VDNext]_vars

\* item validators on one MarkdownContent
SpecItems == InitContent /\ [][VINext]_vars

\* format detection on one MarkdownContent
InitFormat == RQuiet /\ MQuiet /\ FInit /\ GQuiet
SpecFormat == InitFormat /\ [][FNext]_vars

\* calls of the two validateColumns
InitColumns == RQuiet /\ MQuiet /\ CInit /\ GQuiet
SpecColumns == InitColumns /\ [][CNext]_vars

\* one URLValidator.Validate call: every interleaving of its goroutines
InitURLs == RQuiet /\ MQuiet /\ UInit
SpecURLs == InitURLs /\ [][UNext]_vars

\* the same with a scheduler that runs every goroutine that can take a step
FairSpecURLs ==
    /\ InitURLs /\ [][UNext]_vars
    /\ WF_vars(Main)
    /\ \A k \in 1..MaxURLs : WF_vars(Worker(k))

\* one TerraformContent.ExtractResourcesAndDataSources call: every
\* interleaving of its goroutines
InitExtract == RQuiet /\ MQuiet /\ TInit
SpecExtract == InitExtract /\ [][TCNext]_vars

\* the same with a scheduler that runs every goroutine that can take a step
FairSpecExtract ==
    /\ InitExtract /\ [][TCNext]_vars
    /\ WF_vars(MainWorker) /\ WF_vars(ModulesWorker) /\ WF_vars(Closer) /\ WF_vars(Caller)

-----------------------------------------------------------------------------
(* The reconciler: properties *)

\* the normalized entry of every raw item that is not blank
Targets == {NormalizedItem(TrimSpace(r)) : r \in {x \in RawItems : TrimSpace(x) # <<>>}}

\* the number of positions of the sequence s that hold e
Occurrences(s, e) == Cardinality({i \in 1..Len(s) : s[i] = e})

\* the non-blank items of a list that have a dot, resp. none
DottedItems(items) == {TrimSpace(items[i]) : i \in {j \in 1..Len(items) : Index(TrimSpace(items[j]), ".") # -1}}
BareItems(items) == {TrimSpace(items[i]) : i \in {j \in 1..Len(items) : TrimSpace(items[j]) # <<>> /\ Index(TrimSpace(items[j]), ".") = -1}}

\* the base name an error reports
ErrorBase(e) == NormalizedItem(e.original).base

\* C1: the call returns exactly one "in Terraform but missing in markdown"
\* error for each surviving Terraform entry without a match in the markdown
\* index, exactly one "in markdown but missing in Terraform" error for each
\* surviving markdown entry without a match in the Terraform index, and
\* nothing else.
C1_ReconcileErrors ==
    rpc = "done" =>
        /\ \A k \in DOMAIN tfIndex.entries :
              Occurrences(errors, MissingError(itemType, "Terraform", "markdown", tfIndex.entries[k].original))
                = IF hasMatch(mdIndex, tfIndex.entries[k]) THEN 0 ELSE 1
        /\ \A k \in DOMAIN mdIndex.entries :
              Occurrences(errors, MissingError(itemType, "markdown", "Terraform", mdIndex.entries[k].original))
                = IF hasMatch(tfIndex, mdIndex.entries[k]) THEN 0 ELSE 1
        /\ \A i \in 1..Len(errors) :
              \/ \E k \in DOMAIN tfIndex.entries :
                    errors[i] = MissingError(itemType, "Terraform", "markdown", tfIndex.entries[k].original)
              \/ \E k \in DOMAIN mdIndex.entries :
                    errors[i] = MissingError(itemType, "markdown", "Terraform", mdIndex.entries[k].original)

\* a call that found a match for a Terraform entry and reported a markdown
\* entry without one
C1_Witness ==
    /\ rpc = "done"
    /\ \E i \in 1..Len(errors) : errors[i].presentIn = "markdown"
    /\ \E k \in DOMAIN tfIndex.entries : hasMatch(mdIndex, tfIndex.entries[k])

\* C2: hasMatch(target) is true exactly when the target's key is a key of the
\* index or a surviving entry of the index has the target's base; so a bare
\* name matches a qualified name of its base and vice versa, in any letter
\* case.
C2_HasMatch ==
    rpc = "done" =>
        \A idx \in {tfIndex, mdIndex} : \A t \in Targets :
            hasMatch(idx, t) <=>
                \/ t.key \in DOMAIN idx.entries
                \/ \E k \in DOMAIN idx.entries : idx.entries[k].base = t.base

\* an index holding only a qualified name, asked for the bare name of its base
\* in the other letter case, and an index holding only a bare name, asked for
\* a qualified one
C2_Witness ==
    /\ rpc = "done"
    /\ DOMAIN tfIndex.entries = {<<"a", ".", "x">>}
    /\ hasMatch(tfIndex, NormalizedItem(<<"A">>))
    /\ DOMAIN mdIndex.entries = {<<"a">>}
    /\ hasMatch(mdIndex, NormalizedItem(<<"A", ".", "x">>))

\* C3: a built index holds no bare entry whose base is the base of one of its
\* dotted entries, and a bare item of the input survives whenever the input
\* holds no dotted item of its base; Build(["a", "a.x"]) is the qualified
\* entry alone, Build(["a"]) the bare entry alone.
C3_BaseSupersedesBare ==
    rpc = "done" =>
        /\ \A pair \in {<<tfItems, tfIndex>>, <<mdItems, mdIndex>>} :
              LET items == pair[1]
                  idx   == pair[2]
              IN  /\ \A k1, k2 \in DOMAIN idx.entries :
                        ~(~idx.entries[k1].hasDot /\ idx.entries[k2].hasDot
                            /\ idx.entries[k1].base = idx.entries[k2].base)
                  /\ \A b \in BareItems(items) :
                        (\A d \in DottedItems(items) : NormalizedItem(d).base # ToLower(b))
                            => /\ ToLower(b) \in DOMAIN idx.entries
                               /\ ~idx.entries[ToLower(b)].hasDot
        /\ tfItems = << <<"a">>, <<"a", ".", "x">> >> => DOMAIN tfIndex.entries = {<<"a", ".", "x">>}
        /\ tfItems = << <<"a">> >> => DOMAIN tfIndex.entries = {<<"a">>}

\* an input with a bare item superseded by a qualified one and a bare item
\* that survives
C3_Witness ==
    /\ rpc = "done"
    /\ tfItems = << <<"a">>, <<"a", ".", "x">>, <<"b">> >>
    /\ DOMAIN tfIndex.entries = {<<"a", ".", "x">>, <<"b">>}

\* C4 as stated: no call returns two errors whose items share a base name.
C4_OneErrorPerBase ==
    rpc = "done" =>
        \A i, j \in 1..Len(errors) : i # j => ErrorBase(errors[i]) # ErrorBase(errors[j])

\* C4, amended: no call returns two errors for the same lowercase key, and two
\* errors whose items share a base name are both for qualified names of the
\* same side; a bare name is never reported next to a qualified name of its
\* base.
C4_OneErrorPerKey ==
    rpc = "done" =>
        \A i, j \in 1..Len(errors) : i # j =>
            /\ ToLower(errors[i].original) # ToLower(errors[j].original)
            /\ ErrorBase(errors[i]) = ErrorBase(errors[j]) =>
                  /\ errors[i].presentIn = errors[j].presentIn
                  /\ NormalizedItem(errors[i].original).hasDot
                  /\ NormalizedItem(errors[j].original).hasDot

\* a call whose input held a bare name and two qualified names of one base and
\* that reported the two qualified names
C4_Witness ==
    /\ rpc = "done"
    /\ Len(errors) = 2
    /\ \E i \in 1..Len(tfItems) : tfItems[i] = <<"a">>
    /\ ErrorBase(errors[1]) = ErrorBase(errors[2])

\* an error with the roles "Terraform" and "markdown" exchanged
SwapRoles(e) == MissingError(e.itemType, e.missingIn, e.presentIn, e.original)

\* C5: Reconcile(B, A, t) returns as many errors as Reconcile(A, B, t), and
\* they are the errors of Reconcile(A, B, t) with the roles exchanged.
C5_Symmetry ==
    (rpc = "done" /\ relation = "swapped") =>
        /\ Len(errors) = Len(prevErrors)
        /\ Range(errors) = {SwapRoles(e) : e \in Range(prevErrors)}

\* a swapped call that returned errors of both roles
C5_Witness ==
    /\ rpc = "done"
    /\ relation = "swapped"
    /\ \E i, j \in 1..Len(errors) : errors[i].presentIn = "Terraform" /\ errors[j].presentIn = "markdown"

\* C6 as stated: permuting the items of either list never changes the set of
\* errors.
C6_PermutationSameErrors ==
    (rpc = "done" /\ relation = "permuted") => Range(errors) = Range(prevErrors)

\* an error with its item name in lower case
FoldError(e) == MissingError(e.itemType, e.presentIn, e.missingIn, ToLower(e.original))

\* C6, amended: permuting the items of either list changes neither the number
\* of errors nor the set of errors compared with the item names in lower
\* case.
C6_PermutationSameKeys ==
    (rpc = "done" /\ relation = "permuted") =>
        /\ Len(errors) = Len(prevErrors)
        /\ {FoldError(e) : e \in Range(errors)} = {FoldError(e) : e \in Range(prevErrors)}

\* a call on lists that were really reordered and that returned an error
C6_Witness ==
    /\ rpc = "done"
    /\ relation = "permuted"
    /\ Len(tfItems) >= 2
    /\ tfItems[1] # tfItems[2]
    /\ Len(errors) >= 1
    /\ Range(errors) # Range(prevErrors)

-----------------------------------------------------------------------------
(* The section matcher: properties *)

\* a has edit distance at most k from b: the classic recurrence over the
\* runes, with insertions, deletions and substitutions of cost 1
RECURSIVE WithinEdits(_, _, _)
WithinEdits(a, b, k) ==
    IF k < 0 THEN FALSE
    ELSE IF a = <<>> THEN Len(b) <= k
    ELSE IF b = <<>> THEN Len(a) <= k
    ELSE \/ WithinEdits(Tail(a), Tail(b), IF Head(a) = Head(b) THEN k ELSE k - 1)
         \/ WithinEdits(Tail(a), b, k - 1)
         \/ WithinEdits(a, Tail(b), k - 1)

\* what C7 says matchesSectionName(act, exp) returns
C7_Expected(act, exp) ==
    LET a == TrimSpace(act)
        e == TrimSpace(exp)
    IN  /\ a # <<>>
        /\ e # <<>>
        /\ \/ EqualFold(a, e)
           \/ EqualFold(a \o <<"s">>, e)
           \/ EqualFold(a, e \o <<"s">>)
           \/ e = Inputs /\ (EqualFold(a, RequiredInputs) \/ EqualFold(a, OptionalInputs))
           \/ WithinEdits(a, e, 2)

\* C7: matchesSectionName returns true exactly when, after trimming, both
\* names are non-empty and they are equal ignoring case, or equal ignoring
\* case after appending "s" to one of them, or expected is "Inputs" and actual
\* is "Required Inputs" or "Optional Inputs" ignoring case, or their edit
\* distance is at most 2.
C7_Matches ==
    mpc = "done" => (matched <=> C7_Expected(actual, expected))

\* the same on names of one-byte runes only
C7_MatchesAscii ==
    (mpc = "done" /\ "e_acute" \notin Range(actual) \cup Range(expected))
        => (matched <=> C7_Expected(actual, expected))

\* the edit distance of a and b: the least number of insertions, deletions
\* and substitutions of single characters that turn a into b
EditDistance(a, b) ==
    CHOOSE k \in 0..(Len(a) + Len(b)) :
        WithinEdits(a, b, k) /\ ~WithinEdits(a, b, k - 1)

\* C22: levenshtein(s1, s2) returns the classic edit distance of the two
\* strings, for every pair of strings, an empty one included.
C22_EditDistance ==
    mpc = "done" => matched = EditDistance(actual, expected)

\* C22: it is therefore symmetric ...
C22_Symmetric ==
    mpc = "done" => matched = levenshtein(expected, actual)

\* ... and zero exactly for equal strings.
C22_ZeroIffEqual ==
    mpc = "done" => (matched = 0 <=> actual = expected)

\* the same on strings of one-byte runes only
C22_EditDistanceAscii ==
    (mpc = "done" /\ "e_acute" \notin Range(actual) \cup Range(expected))
        => /\ matched = EditDistance(actual, expected)
           /\ matched = levenshtein(expected, actual)
           /\ matched = 0 <=> actual = expected

\* levenshtein("s", "aa\u00e9") has returned 0
C22_ZeroForDifferent ==
    /\ mpc = "done"
    /\ actual = <<"s">>
    /\ expected = <<"a", "a", "e_acute">>
    /\ matched = 0

-----------------------------------------------------------------------------
(* The MarkdownContent: properties *)

\* the trimmed texts of the level-2 headings of the document
H2Texts(d) == {TrimSpace(headingText(d, h)) : h \in Range(h2Headings(d))}

SomeHeadingMatches(d, sectionNames) ==
    \E t \in H2Texts(d), i \in 1..Len(sectionNames) : matchesSectionName(t, sectionNames[i])

\* the level-2 headings that match some of the names
MatchingHeadings(d, sectionNames) ==
    {h \in Range(h2Headings(d)) :
        \E i \in 1..Len(sectionNames) :
            matchesSectionName(TrimSpace(headingText(d, h)), sectionNames[i])}

\* the names of the level-3 headings that lie under a matching heading, before
\* the next heading of level 2 or shallower
SectionItemNames(d, sectionNames) ==
    {itemNameFromHeading(d, k) :
        k \in {n \in 1..Len(d.blocks) :
                 /\ d.blocks[n].level = 3
                 /\ \E h \in MatchingHeadings(d, sectionNames) :
                       h < n /\ \A m \in (h + 1)..(n - 1) :
                                   ~IsHeading(d.blocks[m]) \/ d.blocks[m].level > 2}}

\* the names the input_ and output_ anchor patterns capture in the document
AnchorNames(d) == Range(d.inputAnchors) \cup Range(d.outputAnchors)

\* what C10 says of one call: fallback exactly when no heading matches, items
\* under matching headings otherwise
ExtractAsSpecified(d, call) ==
    IF SomeHeadingMatches(d, call.args)
    THEN call.path = "headings" /\ Range(call.result) \subseteq SectionItemNames(d, call.args)
    ELSE call.path = "fallback" /\ Range(call.result) \subseteq AnchorNames(d)

\* C10: ExtractSectionItems uses the anchor fallback only when no level-2
\* heading matches any requested name: if a heading matches, every item is
\* the name of a level-3 heading under a matching heading before the next
\* heading of level 2 or shallower; if none matches, the items are names the
\* anchor patterns capture.
C10_FallbackOnlyWithoutMatch ==
    lastCall.op = "ExtractSectionItems" => ExtractAsSpecified(doc, lastCall)

\* the same on a MarkdownContent that has answered no call before
C10_FirstCall ==
    (lastCall.op = "ExtractSectionItems" /\ calls = 1) => ExtractAsSpecified(doc, lastCall)

\* a call took the fallback although a heading matches a requested name
C10_FallbackDespiteMatch ==
    /\ lastCall.op = "ExtractSectionItems"
    /\ lastCall.path = "fallback"
    /\ SomeHeadingMatches(doc, lastCall.args)

\* the items ExtractSectionItems returns on a freshly constructed
\* MarkdownContent of the document
FreshItems(d, sectionNames) == extractDocumentSectionItems(d, <<>>, sectionNames).items

\* C24: the result of ExtractSectionItems(names) depends only on the document
\* and on names, never on the history of earlier calls: after any sequence of
\* earlier calls it returns the same items as on a freshly constructed
\* MarkdownContent.
C24_IndependentOfHistory ==
    lastCall.op = "ExtractSectionItems" => lastCall.result = FreshItems(doc, lastCall.args)

\* the same for a call none of whose names has a cached answer yet
C24_FreshWhenUncached ==
    [][(/\ lastCall'.op = "ExtractSectionItems"
        /\ calls' = calls + 1
        /\ \A i \in 1..Len(lastCall'.args) :
              ToLower(TrimSpace(lastCall'.args[i])) \notin DOMAIN sectionMatches)
          => lastCall'.result = FreshItems(doc, lastCall'.args)]_vars

\* a call returned other items than a fresh MarkdownContent returns, after an
\* earlier call with a name that differs in letter case
C24_StaleItems ==
    /\ lastCall.op = "ExtractSectionItems"
    /\ calls > 1
    /\ lastCall.result # FreshItems(doc, lastCall.args)

\* what HasSection computes for a name when it has no cached answer
UncachedHasSection(d, sectionName) == Len(matchExactSectionHeadings(d, sectionName)) > 0

\* C25: for any sequence of calls on one MarkdownContent, HasSection(name)
\* returns the same value every time it is called with the same literal name,
\* the value an uncached computation over the document gives: every cached
\* answer is the uncached answer of the literal name it is kept under, and
\* the answer of a call is the one kept under its own literal name.
C25_HasSectionCacheSound ==
    /\ \A name \in DOMAIN sections : sections[name] = UncachedHasSection(doc, name)
    /\ lastCall.op = "HasSection" =>
          /\ lastCall.args[1] \in DOMAIN sections
          /\ lastCall.result = sections[lastCall.args[1]]
          /\ lastCall.result = UncachedHasSection(doc, lastCall.args[1])

\* HasSection has answered true from its cache: only HasSection has been
\* called, more often than there are names with a cached answer
C25_Witness ==
    /\ lastCall.op = "HasSection"
    /\ lastCall.result = TRUE
    /\ sectionMatches = <<>>
    /\ calls > Cardinality(DOMAIN sections)

\* HasSection has been called with two literal names that are equal once
\* trimmed and folded, and has different answers for them
C25_TwoLiteralNames ==
    /\ lastCall.op = "HasSection"
    /\ \E a, b \in DOMAIN sections :
          ToLower(TrimSpace(a)) = ToLower(TrimSpace(b)) /\ sections[a] # sections[b]

\* the anchor types the requested names indicate
IndicatedAnchorTypes(sectionNames) ==
    (IF \E i \in 1..Len(sectionNames) : Contains(ToLower(sectionNames[i]), Input)
     THEN {"input"} ELSE {})
    \cup (IF \E i \in 1..Len(sectionNames) : Contains(ToLower(sectionNames[i]), Output)
          THEN {"output"} ELSE {})

\* the types of the anchors the document defines for the item name
AnchorTypesOf(d, item) ==
    (IF \E i \in 1..Len(d.inputAnchors) : ToLower(TrimSpace(d.inputAnchors[i])) = ToLower(item)
     THEN {"input"} ELSE {})
    \cup (IF \E i \in 1..Len(d.outputAnchors) : ToLower(TrimSpace(d.outputAnchors[i])) = ToLower(item)
          THEN {"output"} ELSE {})

\* the items found under the headings that a call with this cache collects
ItemsBeforeFilter(d, cache, sectionNames) ==
    itemsUnderHeadings(d, collectSectionHeadings(d, cache, sectionNames).headings)

\* the items without those that have anchors, none of them of the expected type
WithoutOtherAnchored(d, expectedTypes, items) ==
    LET Dropped(item) == AnchorTypesOf(d, item) # {} /\ AnchorTypesOf(d, item) \cap expectedTypes = {}
        Kept(item) == ~Dropped(item)
    IN  SelectSeq(items, Kept)

\* C26: when the requested names indicate an anchor type, ExtractSectionItems
\* drops an item found under the matching headings if and only if the document
\* defines anchors for the item name and none of them has the expected type;
\* items with no known anchor type pass through.
C26_DroppedIffOtherAnchor ==
    [][(/\ lastCall'.op = "ExtractSectionItems"
        /\ calls' = calls + 1
        /\ lastCall'.path = "headings"
        /\ Cardinality(IndicatedAnchorTypes(lastCall'.args)) = 1)
          => lastCall'.result =
                WithoutOtherAnchored(doc, IndicatedAnchorTypes(lastCall'.args),
                    ItemsBeforeFilter(doc, sectionMatches, lastCall'.args))]_vars

\* a first call has dropped an item that has an anchor of the other type only
C26_Witness ==
    /\ lastCall.op = "ExtractSectionItems"
    /\ lastCall.path = "headings"
    /\ calls = 1
    /\ Cardinality(IndicatedAnchorTypes(lastCall.args)) = 1
    /\ \E item \in Range(ItemsBeforeFilter(doc, <<>>, lastCall.args)) :
          /\ item \notin Range(lastCall.result)
          /\ AnchorTypesOf(doc, item) # {}
          /\ AnchorTypesOf(doc, item) \cap IndicatedAnchorTypes(lastCall.args) = {}

\* a call has kept an item that has no anchor while another item of the
\* document has one
C26_KeptWithoutAnchor ==
    /\ lastCall.op = "ExtractSectionItems"
    /\ lastCall.path = "headings"
    /\ doc.inputAnchors # <<>>
    /\ \E item \in Range(lastCall.result) : AnchorTypesOf(doc, item) = {}

-----------------------------------------------------------------------------
(* Resources and section names: properties *)

\* the links of the document below a "Resources" heading: after a matching
\* level-2 heading, before the next heading of level 2 or shallower
SectionLinks(d) ==
    UNION {Range(d.blocks[n].links) :
        n \in {k \in 1..Len(d.blocks) :
                 \E h \in MatchingHeadings(d, <<Resources>>) :
                    h < k /\ \A m \in (h + 1)..(k - 1) :
                                ~IsHeading(d.blocks[m]) \/ d.blocks[m].level > 2}}

\* all links of the document
DocumentLinks(d) == UNION {Range(d.blocks[n].links) : n \in 1..Len(d.blocks)}

\* a scan of these links yields a resource or a data source
Yields(d, links) == \E l \in links : hasProviderPrefix(d, l.text)

\* C11 as the specification words it: the call returns an error only if
\* neither the scan of the "Resources" section nor the scan of the entire
\* document yields a resource or data source, and a call without error
\* returns at least one non-empty list.
C11_ErrorOnlyIfBothScansEmpty ==
    lastCall.op = "ExtractResourcesAndDataSources" =>
        /\ lastCall.result.err # "" =>
              ~Yields(doc, SectionLinks(doc)) /\ ~Yields(doc, DocumentLinks(doc))
        /\ lastCall.result.err = "" =>
              lastCall.result.resources # <<>> \/ lastCall.result.dataSources # <<>>

\* C11: the call scans the sections of the matching headings when a level-2
\* heading matches "Resources" and the entire document only when none does;
\* it returns an error exactly when that one scan yields no resource and no
\* data source, and a call without error returns at least one non-empty list.
C11_ErrorIffScanEmpty ==
    lastCall.op = "ExtractResourcesAndDataSources" =>
        /\ lastCall.result.err # "" <=>
              ~Yields(doc, IF MatchingHeadings(doc, <<Resources>>) = {}
                           THEN DocumentLinks(doc) ELSE SectionLinks(doc))
        /\ lastCall.result.err = "" =>
              lastCall.result.resources # <<>> \/ lastCall.result.dataSources # <<>>

\* the call failed on an empty "Resources" section although the document has
\* a provider link elsewhere
C11_Witness ==
    /\ lastCall.op = "ExtractResourcesAndDataSources"
    /\ lastCall.result.err = ResourcesNotFound
    /\ MatchingHeadings(doc, <<Resources>>) # {}
    /\ Yields(doc, DocumentLinks(doc))

\* the texts of the level-2 headings, in document order
H2TextSeq(d) == [i \in 1..Len(h2Headings(d)) |-> headingText(d, h2Headings(d)[i])]

\* C12 as the specification words it: GetAllSections returns the literal text
\* of every level-2 heading, in document order, duplicates preserved: exactly
\* one entry per level-2 heading.
C12_OneEntryPerHeading ==
    lastCall.op = "GetAllSections" => lastCall.result = H2TextSeq(doc)

\* C12: GetAllSections returns the trimmed text of every level-2 heading whose
\* trimmed text is not empty, in document order, duplicates preserved: exactly
\* one entry per such heading, none for a heading without text.
C12_OneEntryPerNamedHeading ==
    lastCall.op = "GetAllSections" =>
        LET named == {i \in 1..Len(h2Headings(doc)) : TrimSpace(H2TextSeq(doc)[i]) # <<>>}
        IN  /\ Len(lastCall.result) = Cardinality(named)
            /\ \A i \in named :
                  lastCall.result[Cardinality({j \in named : j <= i})] = TrimSpace(H2TextSeq(doc)[i])

\* GetAllSections returned one name for a document with two level-2 headings,
\* one of them without text
C12_Witness ==
    /\ lastCall.op = "GetAllSections"
    /\ Len(h2Headings(doc)) = 2
    /\ Len(lastCall.result) = 1

\* no element occurs twice in the list
NoDuplicates(list) == \A i, j \in 1..Len(list) : list[i] = list[j] => i = j

\* C27: each of the two lists returned by ExtractResourcesAndDataSources
\* contains no duplicate names, for any document, also with repeated links or
\* with more than one heading matching "Resources".
C27_NoDuplicateNames ==
    lastCall.op = "ExtractResourcesAndDataSources" =>
        NoDuplicates(lastCall.result.resources) /\ NoDuplicates(lastCall.result.dataSources)

\* the same for a document in which at most one heading matches "Resources"
C27_NoDuplicatesInOneSection ==
    (/\ lastCall.op = "ExtractResourcesAndDataSources"
     /\ Cardinality(MatchingHeadings(doc, <<Resources>>)) <= 1) =>
        NoDuplicates(lastCall.result.resources) /\ NoDuplicates(lastCall.result.dataSources)

\* a link repeated under one "Resources" heading is listed once
C27_RepeatedLinkOnce ==
    /\ lastCall.op = "ExtractResourcesAndDataSources"
    /\ Len(doc.blocks) = 3
    /\ lastCall.result.resources = << <<"p", "_", "r", ".", "m">>, <<"p", "_", "r">> >>

\* a link repeated under a second "Resources" heading is listed twice
C27_ListedTwice ==
    /\ lastCall.op = "ExtractResourcesAndDataSources"
    /\ Cardinality(MatchingHeadings(doc, <<Resources>>)) = 2
    /\ ~NoDuplicates(lastCall.result.resources)

-----------------------------------------------------------------------------
(* The SectionValidator: properties *)

\* the expected section names of a validator
ExpectedSections(additionalSections) == Range(requiredSections) \cup Range(additionalSections)

\* the number of errors that are about the expected section name
ErrorsAbout(errs, name) == Cardinality({i \in 1..Len(errs) : errs[i].section = name})

\* the found section f is the expected section e under another spelling, while
\* every other expected section is present and correctly named
OnlyMisspelt(foundSections, expectedSections, f, e, Similar(_, _)) ==
    /\ f # e
    /\ e \notin Range(foundSections)
    /\ Similar(f, e)
    /\ (expectedSections \ {e}) \subseteq Range(foundSections)

\* C13: for every expected (required or additional) section name Validate
\* reports at most one error, never both a "misspelled" and a "missing" one;
\* when a level-2 heading that fuzzy-matches the expected name is present
\* under a different spelling and all other expected sections are present and
\* correctly named, the result is exactly one "misspelled" error naming the
\* found and the expected text.
C13_OneErrorPerSection ==
    lastCall.op = "SectionValidator.Validate" =>
        LET foundSections == sectionNamesOf(doc)
            expectedSections == ExpectedSections(lastCall.args)
        IN  /\ \A e \in expectedSections : ErrorsAbout(lastCall.result, e) <= 1
            /\ \A e \in expectedSections : \A f \in Range(foundSections) :
                  OnlyMisspelt(foundSections, expectedSections, f, e, matchesSectionName)
                      => lastCall.result = <<MisspelledError(f, e)>>

\* the same for a validator whose additional sections are named once each and
\* are not similar to the required ones, with "similar" as Validate computes it
C13_DistinctSections ==
    (/\ lastCall.op = "SectionValidator.Validate"
     /\ \A a \in Range(lastCall.args) : \A r \in Range(requiredSections) :
            ~isSimilarSection(a, r) /\ ~isSimilarSection(r, a)
     /\ Cardinality(Range(lastCall.args)) = Len(lastCall.args)) =>
        LET foundSections == sectionNamesOf(doc)
            expectedSections == ExpectedSections(lastCall.args)
        IN  /\ \A e \in expectedSections : ErrorsAbout(lastCall.result, e) <= 1
            /\ \A e \in expectedSections : \A f \in Range(foundSections) :
                  OnlyMisspelt(foundSections, expectedSections, f, e, isSimilarSection)
                      => lastCall.result = <<MisspelledError(f, e)>>

\* Validate reported a section both as misspelled and as missing
C13_MisspelledAndMissing ==
    /\ lastCall.op = "SectionValidator.Validate"
    /\ \E i, j \in 1..Len(lastCall.result) :
          /\ lastCall.result[i].kind = "misspelled"
          /\ lastCall.result[j].kind = "additional section missing"
          /\ lastCall.result[i].section = lastCall.result[j].section

\* the found sections that Validate has reported as misspelled
ReportedMisspelled(call) ==
    {e.found : e \in {x \in Range(call.result) : x.kind = "misspelled"}}

\* C23: Validate never reports a level-2 heading as misspelled when the
\* heading's text is exactly one of the required or additional section names.
C23_ExactNeverMisspelled ==
    lastCall.op = "SectionValidator.Validate" =>
        ReportedMisspelled(lastCall) \cap ExpectedSections(lastCall.args) = {}

\* the same when no additional section is similar to another expected name
C23_ExactNeverMisspelledApart ==
    (lastCall.op = "SectionValidator.Validate" /\ Output \notin Range(lastCall.args)) =>
        ReportedMisspelled(lastCall) \cap ExpectedSections(lastCall.args) = {}

\* the heading "output" of a document without "Outputs", asked for as an
\* additional section, has been reported as a misspelling of "Outputs"
C23_ExpectedReportedMisspelled ==
    /\ lastCall.op = "SectionValidator.Validate"
    /\ lastCall.args = <<Output>>
    /\ Output \in Range(sectionNamesOf(doc))
    /\ MisspelledError(Output, Outputs) \in Range(lastCall.result)

-----------------------------------------------------------------------------
(* The resource validator and the item validators: properties *)

\* the module has no resource and no data source, and extracting them worked
NoDefinitions(tf) == tf.err = "" /\ tf.resources = <<>> /\ tf.dataSources = <<>>

C16_OnlySectionError ==
    (/\ lastCall.op = "TerraformDefinitionValidator.Validate"
     /\ lastCall.args.err = ""
     /\ Len(lastCall.args.resources) + Len(lastCall.args.dataSources) > 0
     /\ ~Yields(doc, IF MatchingHeadings(doc, <<Resources>>) = {}
                     THEN DocumentLinks(doc) ELSE SectionLinks(doc)))
        => lastCall.result = <<PlainError(ResourcesNotFound)>>

\* the validator returned the one error for a document whose "Resources"
\* heading is present but empty
C16_Witness ==
    /\ lastCall.op = "TerraformDefinitionValidator.Validate"
    /\ Len(lastCall.args.resources) > 0
    /\ MatchingHeadings(doc, <<Resources>>) # {}
    /\ lastCall.result = <<PlainError(ResourcesNotFound)>>

\* the extraction error of the configuration a validator was run with
ExtractionError(call) ==
    IF call.op = "ItemValidator.Validate" THEN call.args.tf.err ELSE call.args.err

\* C17: when extraction from the configuration fails, the validator returns a
\* list of exactly that one error and performs none of its remaining checks:
\* no comparison error is added and the MarkdownContent is not asked anything.
C17_OnlyExtractionError ==
    (/\ lastCall.op \in {"TerraformDefinitionValidator.Validate", "ItemValidator.Validate"}
     /\ ExtractionError(lastCall) # "")
        => /\ lastCall.result = <<PlainError(ExtractionError(lastCall))>>
           /\ calls = 1 => sections = <<>> /\ sectionMatches = <<>>

\* an item validator returned the extraction error alone for a document that
\* documents an item
C17_Witness ==
    /\ lastCall.op = "ItemValidator.Validate"
    /\ lastCall.args.tf.err # ""
    /\ lastCall.result = <<PlainError(lastCall.args.tf.err)>>
    /\ SomeHeadingMatches(doc, lastCall.args.iv.sections)
    /\ calls = 1

-----------------------------------------------------------------------------
(* The ReadmeValidator: properties *)

\* the error lists of the validators 1..n of the list, one after the other
RECURSIVE OutcomesUpTo(_, _)
OutcomesUpTo(outcome, n) ==
    IF n = 0 THEN <<>> ELSE OutcomesUpTo(outcome, n - 1) \o outcome[defaultValidators[n]]

\* C18: ReadmeValidator.Validate runs every configured validator exactly
\* once, in the fixed order Section, File, URL, Terraform definitions,
\* Variables, Outputs, whether or not an earlier validator reported errors,
\* and returns the concatenation of all their error lists in that order.
C18_AllValidatorsInOrder ==
    lastCall.op = "ReadmeValidator.Validate" =>
        /\ lastCall.path = <<"SectionValidator", "FileValidator", "URLValidator",
                             "TerraformDefinitionValidator", "ItemValidator Variables",
                             "ItemValidator Outputs">>
        /\ lastCall.result = OutcomesUpTo(lastCall.args, Len(defaultValidators))

\* the first and the last validator both reported errors, and both are in the
\* result
C18_Witness ==
    /\ lastCall.op = "ReadmeValidator.Validate"
    /\ lastCall.args["SectionValidator"] # <<>>
    /\ lastCall.args["ItemValidator Outputs"] # <<>>
    /\ lastCall.result[1] = PlainError("SectionValidator")
    /\ lastCall.result[Len(lastCall.result) - 1] = PlainError("ItemValidator Outputs")

-----------------------------------------------------------------------------
(* Format detection: properties *)

\* the sections of sectionsToCheck that analyzeSection attributes to a format
SectionSignals(d, format) ==
    {i \in 1..Len(sectionsToCheck) : analyzeSection(d, sectionsToCheck[i]) = format}

\* C19: the format detector counts one point per section signal, adds 2 to the
\* heading-style (document) score when the document has any level-3 heading,
\* adds the secondary points (typed code blocks, several tables) only when the
\* two scores are then exactly equal, and returns table-style only when the
\* final table score is strictly greater; on a final tie, the one without any
\* signal included, it returns heading-style.
C19_FormatScores ==
    lastCall.op = "detectFormatHeuristic" =>
        LET heading0 == Cardinality(SectionSignals(doc, FormatDocument))
                            + (IF hasLevel3Headings(doc) THEN 2 ELSE 0)
            table0 == Cardinality(SectionSignals(doc, FormatTable))
            tie == heading0 = table0
            heading1 == heading0 + (IF tie /\ hasTypeCodeBlocks(doc) THEN 1 ELSE 0)
            table1 == table0 + (IF tie /\ hasMultipleTableStructures(doc) THEN 1 ELSE 0)
        IN  /\ lastCall.result.documentScore = heading1
            /\ lastCall.result.tableScore = table1
            /\ lastCall.result.format \in {FormatDocument, FormatTable}
            /\ lastCall.result.format = FormatTable <=> table1 > heading1

\* a document with a level-3 heading and two table sections: 2 against 2, an
\* exact tie that the second table breaks in favour of table-style
C19_Witness ==
    /\ lastCall.op = "detectFormatHeuristic"
    /\ hasLevel3Headings(doc)
    /\ SectionSignals(doc, FormatDocument) = {}
    /\ lastCall.result.documentScore = 2
    /\ lastCall.result.tableScore = 3
    /\ lastCall.result.format = FormatTable

\* a document without section signals where both secondary heuristics fire:
\* 1 against 1, still tied, heading-style
C19_StillTied ==
    /\ lastCall.op = "detectFormatHeuristic"
    /\ lastCall.result.documentScore = 1
    /\ lastCall.result.tableScore = 1
    /\ lastCall.result.format = FormatDocument

-----------------------------------------------------------------------------
(* Table columns: properties *)

\* a call of one of the two validateColumns has returned
ColumnsValidated ==
    lastCall.op \in {"validateColumns", "MarkdownContent.validateColumns"}

\* the required columns that no cell of the header names, case aside
LackingColumns(call) ==
    {r \in Range(call.args.required) :
        \A i \in 1..Len(call.args.actual) : ~EqualFold(call.args.actual[i], r)}

\* the columns for which the errors hold a "missing required column '<name>'"
MissingReported(call) ==
    {e.column : e \in {x \in Range(call.result) :
        x.kind \in {"missing required column",
                    "missing required column in table under header"}}}

\* C20: when the header of a section's table lacks a required column, column
\* validation returns a "missing required column '<name>'" error for that
\* column, whatever other columns the header has in its place.
C20_MissingColumnReported ==
    ColumnsValidated => LackingColumns(lastCall) \subseteq MissingReported(lastCall)

\* C20, the scenario: the header <<Name, Ver>> of the Providers table yields
\* "missing required column 'Version'".
C20_ProvidersScenario ==
    (/\ ColumnsValidated
     /\ lastCall.args.sectionName = Providers
     /\ lastCall.args.actual = <<Name, Ver>>)
        => Version \in MissingReported(lastCall)

\* what the two functions do: validateColumns of utils.go reports the lacking
\* columns only when every cell of the header is a required or an optional
\* column; MarkdownContent.validateColumns reports those that no cell of the
\* header was taken for, by name or as a close match
C20_MissingUnlessSuppressed ==
    /\ lastCall.op = "validateColumns" =>
          MissingReported(lastCall) =
              IF Range(lastCall.args.actual) \subseteq
                     Range(lastCall.args.required) \cup Range(lastCall.args.optional)
              THEN {r \in Range(lastCall.args.required) : r \notin Range(lastCall.args.actual)}
              ELSE {}
    /\ lastCall.op = "MarkdownContent.validateColumns" =>
          LET hinted == {e.hint : e \in {x \in Range(lastCall.result) :
                                     x.kind = "unexpected column (did you mean)"}}
          IN  MissingReported(lastCall) = LackingColumns(lastCall) \ hinted

\* validateColumns of utils.go on the scenario: "Ver" is reported as
\* unexpected and "Version" is not reported as missing
C20_SuppressedByUnexpected ==
    /\ lastCall.op = "validateColumns"
    /\ lastCall.args.sectionName = Providers
    /\ lastCall.args.actual = <<Name, Ver>>
    /\ lastCall.result = <<UnexpectedUnderHeaderError(Ver, Providers)>>

\* MarkdownContent.validateColumns on the scenario: "Ver" is unexpected and
\* "Version" is missing
C20_ScenarioOfTheMethod ==
    /\ lastCall.op = "MarkdownContent.validateColumns"
    /\ lastCall.args.sectionName = Providers
    /\ lastCall.args.actual = <<Name, Ver>>
    /\ lastCall.result = <<UnexpectedColumnError(Providers, Ver),
                           MissingColumnError(Providers, Version)>>

\* MarkdownContent.validateColumns on a close match: "Versions" gets the hint
\* and "Version" is not reported as missing
C20_SuppressedByCloseMatch ==
    /\ lastCall.op = "MarkdownContent.validateColumns"
    /\ lastCall.args.sectionName = Providers
    /\ lastCall.args.actual = <<Name, Versions>>
    /\ lastCall.result = <<DidYouMeanError(Providers, Versions, Version)>>

-----------------------------------------------------------------------------
(* The URLValidator: properties *)

\* URLValidator.Validate has returned
Returned == uv.main = "returned"

\* the occurrences that Validate must not request
Skipped(k) == Contains(uv.urls[k], RegistryProviders)

\* the occurrences whose validateSingleURL is in progress
InProgress == {k \in DOMAIN uv.pc : uv.pc[k] = "check"}

\* the occurrences whose check has failed
FailedChecks == {k \in DOMAIN uv.pc : uv.err[k] # NilError}

\* C21: under every scheduling, a URL that contains
\* "registry.terraform.io/providers/" is never requested, every other
\* occurrence is checked once, and the list Validate returns holds exactly
\* one error for each occurrence whose check failed (a request error or a
\* status other than 200) and nothing else.
C21_OneErrorPerFailedCheck ==
    /\ \A k \in DOMAIN uv.pc : Skipped(k) => uv.pc[k] = "none" /\ uv.err[k] = NilError
    /\ Returned =>
          /\ \A k \in DOMAIN uv.pc : ~Skipped(k) => uv.pc[k] = "finished"
          /\ Len(uv.errors) = Cardinality(FailedChecks)
          /\ \A k \in FailedChecks :
                /\ uv.err[k].url = uv.urls[k]
                /\ Occurrences(uv.errors, uv.err[k])
                      = Cardinality({j \in FailedChecks : uv.err[j] = uv.err[k]})

\* the list of four URLs: the provider's is skipped, the module's is fine,
\* the two others fail, and the error of the later one is returned first
C21_Witness ==
    /\ Returned
    /\ uv.urls = <<UnreachableURL, ProviderURL, PlainURL, ModuleURL>>
    /\ uv.errors = <<validateSingleURL(PlainURL, "404"),
                     validateSingleURL(UnreachableURL, "error")>>

\* C28: at every moment of URLValidator.Validate at most maxConcurrency (5)
\* validateSingleURL calls are in progress, and no more goroutines hold a
\* slot of sem.
C28_AtMostFiveChecks ==
    /\ Cardinality(InProgress) <= maxConcurrency
    /\ uv.sem <= maxConcurrency
    /\ Cardinality(InProgress) <= uv.sem

\* five checks are in progress and a sixth goroutine waits for a slot
C28_Witness ==
    /\ Cardinality(InProgress) = maxConcurrency
    /\ \E k \in DOMAIN uv.pc : uv.pc[k] = "acquire"

\* what keeps Validate going: a goroutine that sends finds room in errChan,
\* the slots held are those of the goroutines between acquire and release,
\* errChan is closed only when every goroutine has finished, and nothing is
\* held when Validate returns
NothingStuck ==
    /\ \A k \in DOMAIN uv.pc : uv.pc[k] # "panic"
    /\ \A k \in DOMAIN uv.pc : uv.pc[k] = "send" => Len(uv.errChan) < Len(uv.urls)
    /\ uv.sem = Cardinality({k \in DOMAIN uv.pc : uv.pc[k] \in {"check", "send", "release"}})
    /\ uv.wg = Cardinality({k \in DOMAIN uv.pc : uv.pc[k] \notin {"none", "finished"}})
    /\ uv.closed => \A k \in DOMAIN uv.pc : uv.pc[k] \in {"none", "finished"}
    /\ Returned => uv.sem = 0 /\ uv.wg = 0

\* C29: provided every validateSingleURL returns and the scheduler runs the
\* goroutines that can take a step, URLValidator.Validate returns: no
\* goroutine waits forever for a slot of sem or for room in errChan, every
\* slot taken is released, and errChan is closed after all goroutines have
\* finished.
C29_Terminates == []NothingStuck /\ <>Returned

\* Validate has returned more errors than sem has slots: goroutines had to
\* wait for a slot, and errChan was filled to its capacity
C29_Witness ==
    /\ Returned
    /\ Len(uv.errors) > maxConcurrency
    /\ Len(uv.errors) = Len(uv.urls)

-----------------------------------------------------------------------------
(* The concurrent TerraformContent: properties *)

\* the call has returned, its three goroutines have ended
ExtractEnded ==
    /\ tc.main = "returned"
    /\ tc.closer = "done"
    /\ \A w \in 1..2 : tc.pc[w] = "done"

\* the three channels are closed once each
ClosedOnce == \A c \in DOMAIN tc.closed : tc.closed[c] = 1

\* no channel is closed twice and nothing is sent on a closed channel
NoChannelMisuse ==
    tc.main # "none" => ~tc.panic /\ \A c \in DOMAIN tc.closed : tc.closed[c] <= 1

\* neither goroutine has an error to send
NeitherFails == \A w \in 1..2 : tc.pc[w] # "extract" /\ tc.out[w].err = NilError

\* the returned lists hold the items of both goroutines and nothing else
HoldsBothWorkers(result) ==
    /\ result.err = NilError
    /\ Range(result.resources) = Range(tc.out[1].resources) \cup Range(tc.out[2].resources)
    /\ Len(result.resources) = Len(tc.out[1].resources) + Len(tc.out[2].resources)
    /\ Range(result.dataSources) = Range(tc.out[1].dataSources) \cup Range(tc.out[2].dataSources)
    /\ Len(result.dataSources) = Len(tc.out[1].dataSources) + Len(tc.out[2].dataSources)

\* C30: for every interleaving of the two worker goroutines and the closing
\* goroutine the call terminates without deadlock: it returns, every goroutine
\* ends, no send blocks forever or hits a closed channel, and the three
\* channels are closed exactly once; when neither worker fails the returned
\* lists contain the items of both workers.
C30_TerminatesWithBoth ==
    /\ <>[](ExtractEnded /\ ClosedOnce)
    /\ []NoChannelMisuse
    /\ []((tc.main = "returned" /\ NeitherFails) => HoldsBothWorkers(tc.result))

\* the call has returned the items of two goroutines that both found some
C30_Witness ==
    /\ ExtractEnded /\ ClosedOnce
    /\ NeitherFails
    /\ tc.out[1].resources # <<>> /\ tc.out[2].resources # <<>>
    /\ HoldsBothWorkers(tc.result)

\* the call has returned the error of a goroutine before errChan was closed
C30_ReturnedBeforeClose ==
    /\ tc.main = "returned"
    /\ tc.result.err # NilError
    /\ tc.closed.errChan = 0

====
